---- MODULE Spec2Model ----
(***************************************************************************)
(* A model of the analytics layer of the movie-ratings dashboard           *)
(* (backend/src/movies/movielens.service.ts, kept here as                  *)
(* src/unnamed/part_005):                                                  *)
(*                                                                         *)
(*   - class KMeans: fit / assignClusters / updateCentroids /              *)
(*     euclideanDistance / areClustersEqual;                               *)
(*   - MovieLensService.getMovieRatingLifecycle, behind the cache;         *)
(*   - MovieLensService.getUserPreferences.                                *)
(*                                                                         *)
(* Numbers.  The service computes in IEEE doubles.  The model computes in  *)
(* exact rationals: a centroid is a pair of sums over a common count, a    *)
(* mean or a normalised preference is a fraction <<numerator,              *)
(* denominator>>, and distances are compared by their squares (the square  *)
(* root is strictly increasing on the non-negative numbers).  Star ratings *)
(* come in half steps, so a rating is held as its number of half stars     *)
(* (1..10 for 0.5..5.0).                                                   *)
(***************************************************************************)
EXTENDS Integers, Sequences, FiniteSets, TLC

VARIABLES
    \* ---- KMeans.fit (one call) ----
    data,          \* the argument of fit: a sequence of points <<x, y>>
    k,             \* KMeans.k
    centroids,     \* KMeans.centroids: [0..k-1 -> centroid], <<>> before fit
    clusters,      \* fit's local `clusters`
    oldClusters,   \* fit's local `oldClusters`
    kmPc,          \* "new" (constructed), "loop" (inside do-while), "done"
    iterations,    \* number of do-while bodies executed so far
    seeds,         \* the indices Math.random picked for the initial centroids
    assignments,   \* the values `clusters` has taken, one per do-while body
    \* ---- getMovieRatingLifecycle ----
    ratingsCsv,    \* dataset/ratings.csv: records [movieId, timestamp, rating]
    tzOffset,      \* seconds the server's local time is ahead of UTC
    cache,         \* the cache manager: [keys held -> value]
    lcPc,          \* "idle", "miss", "computed", "returned", "failed"
    lcMovieId,     \* the argument of the call in progress (0: none)
    lcResult,      \* the value built or fetched (NoValue: none)
    lcError,       \* the error thrown (NoValue: none)
    lcTrace,       \* the calls made so far on the cache ("get", "set") and
                   \* on the dataset ("read") by the call in progress
    \* ---- getUserPreferences ----
    userRatingsCsv,   \* dataset/ratings.csv: records [userId, movieId, rating]
    upPc,             \* "idle", "done", "projected"
    userPreferences,  \* the array returned (<<>> before the call)
    pcaMatrix,        \* applyPCAOnUserPreferences: its local `matrix`
    pcaEmbeddings,    \* applyPCAOnUserPreferences: the array returned
    \* ---- getTemporalRatingPatterns (on ratingsCsv, tzOffset and cache) ----
    tpPc,          \* "idle", "miss", "computed", "returned"
    tpGenre,       \* the argument of the call in progress
    tpResult,      \* the value built or fetched (NoValue: none)
    \* ---- getUserTasteClusters / getUserTasteClustersFromPCA, per request
    \* (on userRatingsCsv and cache) ----
    pcaOutput,     \* what the PCA library returns for the matrix of this
                   \* dataset: one point per user
    tcPc,          \* "idle", "miss", "computed", "returned", "failed", "done"
    tcOp,          \* the operation called, by its cache key
    tcResult,      \* the value built or fetched
    tcTrace,       \* the calls made so far on the cache and on the dataset
    \* ---- MoviesService.getDimensionalityReduction, per request ----
    tempInput,     \* the file scripts/temp_input.json
    tempOutput,    \* the file scripts/temp_output.json
    drPc,          \* "idle", "spawned", "read", "exited0", "exited1",
                   \* "resolved", "rejected"
    drArgs,        \* the arguments of the call
    pyInput,       \* what the python process of the call has read
    drResult,      \* the value the promise of the call resolved with
    \* ---- getClusterInterpretations (the web client) ----
    userClusters,     \* the UserCluster[] the GET of stats/user-clusters gave
    ciPc,             \* "idle", "done"
    interpretations,  \* the array the observable emits (<<>> before)
    \* ---- importMovies, getMovieStats and getMovies (on cache) ----
    movieTable,    \* the table of MovieLensMovie: rows by ascending movieId
    imPc,          \* importMovies: "idle", "saved", "deleted", "resolved"
    rqPc,          \* the reading request: "idle", "miss", "counted",
                   \* "computed", "returned"
    rqOp,          \* the operation called, by its cache key
    rqTotal,       \* getMovieStats: its local totalMovies
    rqResult,      \* the value built or fetched
    rqBegun        \* imPc when the request was made

kmVars == <<data, k, centroids, clusters, oldClusters, kmPc, iterations, seeds,
           assignments>>

lcLocals == <<lcPc, lcMovieId, lcResult, lcError, lcTrace>>

lcVars == <<ratingsCsv, tzOffset, cache, lcLocals>>

upVars == <<userRatingsCsv, upPc, userPreferences, pcaMatrix, pcaEmbeddings>>

tpVars == <<tpPc, tpGenre, tpResult>>

tcVars == <<pcaOutput, tcPc, tcOp, tcResult, tcTrace>>

drVars == <<tempInput, tempOutput, drPc, drArgs, pyInput, drResult>>

ciVars == <<userClusters, ciPc, interpretations>>

imVars == <<movieTable, imPc, rqPc, rqOp, rqTotal, rqResult, rqBegun>>

vars == <<kmVars, lcVars, upVars, tpVars, tcVars, drVars, ciVars, imVars>>

\* What an operation leaves alone: the variables of the other operations.
notKm == <<lcVars, upVars, tpVars, tcVars, drVars, ciVars,
          imVars>>

notLc == <<kmVars, upVars, tpVars, tcVars, drVars, ciVars,
          imVars>>

notUp == <<kmVars, lcVars, tpVars, tcVars, drVars, ciVars,
          imVars>>

notTp == <<kmVars, upVars, tcVars, drVars, ciVars,
          imVars>>

notIm == <<kmVars, upVars, tpVars, tcVars, drVars, ciVars>>

NoValue == "none"

(***************************************************************************)
(* Bounds of the k-means model.                                            *)
(***************************************************************************)
MaxPoints == 3
MaxK == 3

\* The points the inputs of fit are drawn from.  <<1, 1>> is equidistant
\* from <<0, 0>>, <<2, 0>> and <<0, 2>>; <<5, 5>> is far from all of them.
PointUniverse == {<<0, 0>>, <<2, 0>>, <<0, 2>>, <<1, 1>>, <<5, 5>>}

(***************************************************************************)
(* Helpers on sequences and exact fractions.                               *)
(***************************************************************************)
RECURSIVE SumSeq(_)
SumSeq(s) == IF s = <<>> THEN 0 ELSE Head(s) + SumSeq(Tail(s))

Abs(n) == IF n < 0 THEN -n ELSE n

\* Array.flatMap over arrays already mapped: the concatenation.
RECURSIVE FlatMap(_)
FlatMap(arrays) ==
    IF arrays = <<>> THEN <<>>
    ELSE Head(arrays) \o FlatMap(Tail(arrays))

RECURSIVE GCD(_, _)
GCD(a, b) == IF b = 0 THEN a ELSE GCD(b, a % b)

\* a/b < c/d and a/b = c/d for fractions <<numerator, denominator>>, b, d > 0.
FracLess(p, q) == p[1] * q[2] < q[1] * p[2]
FracEq(p, q) == p[1] * q[2] = q[1] * p[2]

(***************************************************************************)
(* class KMeans                                                            *)
(***************************************************************************)

\* A centroid (sx / n, sy / n) in lowest terms.
MkCentroid(sx, sy, n) ==
    LET g == GCD(GCD(Abs(sx), Abs(sy)), n)
    IN  [sx |-> sx \div g, sy |-> sy \div g, n |-> n \div g]

\* A plausible slip: the origin for every initial centroid.
CopyPointAtOrigin(p) == MkCentroid(0, 0, 1)

\* [...data[randomIndex]]: a copy of an input point.
CopyPoint(p) == MkCentroid(p[1], p[2], 1)

\* A plausible slip: the distance along the first dimension only.
euclideanDistanceFirstDimension(point, c) ==
    << (point[1] * c.n - c.sx) * (point[1] * c.n - c.sx), c.n * c.n >>

\* euclideanDistance(point, centroid), squared, as a fraction.
euclideanDistance(point, c) ==
    << (point[1] * c.n - c.sx) * (point[1] * c.n - c.sx)
       + (point[2] * c.n - c.sy) * (point[2] * c.n - c.sy),
       c.n * c.n >>

\* Math.min(...distances) over the centroids cs.
MinDistance(point, cs) ==
    LET ds == {euclideanDistance(point, cs[j]) : j \in DOMAIN cs}
    IN  CHOOSE d \in ds : \A e \in ds : ~FracLess(e, d)

\* A plausible slip: the last index at the minimum.
NearestIndexLastTie(point, cs) ==
    LET ds == {euclideanDistance(point, cs[j]) : j \in DOMAIN cs}
        m == CHOOSE d \in ds : \A e \in ds : ~FracLess(e, d)
        at == {j \in DOMAIN cs : FracEq(euclideanDistance(point, cs[j]), m)}
    IN  CHOOSE j \in at : \A i \in at : i <= j

\* distances.indexOf(Math.min(...distances)): the first index at the minimum.
NearestIndexFirstTie(point, cs) ==
    LET m == MinDistance(point, cs)
        at == {j \in DOMAIN cs : FracEq(euclideanDistance(point, cs[j]), m)}
    IN  CHOOSE j \in at : \A i \in at : j <= i

\* A plausible slip: the 1-based position instead of the 0-based index.
NearestIndexOneBased(point, cs) == NearestIndexFirstTie(point, cs) + 1

NearestIndex(point, cs) == NearestIndexFirstTie(point, cs)

assignClusters(d, cs) == [i \in 1..Len(d) |-> NearestIndex(d[i], cs)]

\* A plausible slip: the points labelled i added up, not averaged.
ClusterSum(d, cl, i) ==
    LET xs == [j \in 1..Len(d) |-> IF cl[j] = i THEN d[j][1] ELSE 0]
        ys == [j \in 1..Len(d) |-> IF cl[j] = i THEN d[j][2] ELSE 0]
    IN  MkCentroid(SumSeq(xs), SumSeq(ys), 1)

\* The mean of the points labelled i, per dimension.
ClusterMean(d, cl, i) ==
    LET members == {j \in 1..Len(d) : cl[j] = i}
        xs == [j \in 1..Len(d) |-> IF cl[j] = i THEN d[j][1] ELSE 0]
        ys == [j \in 1..Len(d) |-> IF cl[j] = i THEN d[j][2] ELSE 0]
    IN  MkCentroid(SumSeq(xs), SumSeq(ys), Cardinality(members))

\* A plausible slip: a centroid without points put back at the origin.
UpdatedCentroidOrOrigin(d, cl, cs, i) ==
    IF \E j \in 1..Len(d) : cl[j] = i
    THEN ClusterMean(d, cl, i)
    ELSE MkCentroid(0, 0, 1)

\* The new position of centroid i: the mean of its points, or the old
\* position when it has none.
UpdatedCentroid(d, cl, cs, i) ==
    IF \E j \in 1..Len(d) : cl[j] = i
    THEN ClusterMean(d, cl, i)
    ELSE cs[i]

updateCentroids(d, cl, cs) == [i \in DOMAIN cs |-> UpdatedCentroid(d, cl, cs, i)]

\* A plausible slip: the lengths compared, not the labels.
areClustersEqualInLength(a, b) == Len(a) = Len(b)

\* a.every((val, i) => val === b[i]); b[i] is undefined past the end of b.
areClustersEqual(a, b) ==
    \A i \in 1..Len(a) : i <= Len(b) /\ a[i] = b[i]

\* No KMeans object in this run.
KmOff ==
    /\ data = <<>>
    /\ k = 0
    /\ centroids = <<>>
    /\ clusters = <<>>
    /\ oldClusters = <<>>
    /\ kmPc = "off"
    /\ iterations = 0
    /\ seeds = <<>>
    /\ assignments = <<>>

\* new KMeans(k); the caller then calls fit(data).
KmInitOver(pointSets, ks) ==
    /\ data \in pointSets
    /\ k \in ks
    /\ centroids = <<>>
    /\ clusters = <<>>
    /\ oldClusters = <<>>
    /\ kmPc = "new"
    /\ iterations = 0
    /\ seeds = <<>>
    /\ assignments = <<>>

AllInputs == UNION {[1..n -> PointUniverse] : n \in 1..MaxPoints}

KmInit == KmInitOver(AllInputs, 1..MaxK)

\* fit, lines 728-734: k centroids, each a copy of a point of the input
\* picked by Math.floor(Math.random() * data.length), then the two locals.
FitStart ==
    /\ kmPc = "new"
    /\ \E pick \in [0..(k - 1) -> 1..Len(data)] :
          /\ centroids' = [i \in 0..(k - 1) |-> CopyPoint(data[pick[i]])]
          /\ seeds' = pick
    /\ clusters' = <<>>
    /\ oldClusters' = <<>>
    /\ kmPc' = "loop"
    /\ UNCHANGED <<data, k, iterations, assignments>>
    /\ UNCHANGED notKm

\* One pass of the do-while of fit: the body, then the loop condition.
FitIterate ==
    /\ kmPc = "loop"
    /\ oldClusters' = clusters
    /\ clusters' = assignClusters(data, centroids)
    /\ centroids' = updateCentroids(data, clusters', centroids)
    /\ iterations' = iterations + 1
    /\ assignments' = Append(assignments, clusters')
    /\ kmPc' = IF areClustersEqual(clusters', oldClusters') THEN "done" ELSE "loop"
    /\ UNCHANGED <<data, k, seeds>>
    /\ UNCHANGED notKm

KmNext == FitStart \/ FitIterate

(***************************************************************************)
(* MovieLensService.getMovieRatingLifecycle                                *)
(***************************************************************************)

\* Bound of the lifecycle model: the rows of ratings.csv.
MaxRatings == 3

\* dataset/movies.csv as records [movieId, title, genres], a title being
\* the sequence of its characters ("A (2000)", "B", "C (0000)",
\* "D (12) (1999)") and genres the genres column split at "|".  No row has
\* movieId 5.
MoviesCsv ==
    << [movieId |-> 1, title |-> <<"A", " ", "(", "2", "0", "0", "0", ")">>,
        genres |-> <<"Action", "Comedy">>],
       [movieId |-> 2, title |-> <<"B">>,
        genres |-> <<"(no genres listed)">>],
       [movieId |-> 3, title |-> <<"C", " ", "(", "0", "0", "0", "0", ")">>,
        genres |-> <<"Comedy">>],
       [movieId |-> 4,
        title |-> <<"D", " ", "(", "1", "2", ")", " ",
                    "(", "1", "9", "9", "9", ")">>,
        genres |-> <<"Drama", "Action">>] >>

RequestIds == 1..5

Digits == {"0", "1", "2", "3", "4", "5", "6", "7", "8", "9"}

DigitValue(c) ==
    CASE c = "0" -> 0 [] c = "1" -> 1 [] c = "2" -> 2 [] c = "3" -> 3
      [] c = "4" -> 4 [] c = "5" -> 5 [] c = "6" -> 6 [] c = "7" -> 7
      [] c = "8" -> 8 [] c = "9" -> 9

\* A release year of null.  Parsed years are 0..9999.
NullYear == -1

\* The positions where /\((\d{4})\)/ matches in title.
YearMatchPositions(title) ==
    {p \in 1..(Len(title) - 5) :
        /\ title[p] = "("
        /\ \A d \in 1..4 : title[p + d] \in Digits
        /\ title[p + 5] = ")"}

\* yearMatch ? parseInt(yearMatch[1]) : null, for the first match.
ParseReleaseYear(title) ==
    LET ps == YearMatchPositions(title)
    IN  IF ps = {} THEN NullYear
        ELSE LET p == CHOOSE q \in ps : \A r \in ps : q <= r
             IN  1000 * DigitValue(title[p + 1]) + 100 * DigitValue(title[p + 2])
                 + 10 * DigitValue(title[p + 3]) + DigitValue(title[p + 4])

\* The `movies` array of the call: the rows of movies.csv with this movieId.
ReadMovies(movieId) ==
    LET Mine(rec) == rec.movieId = movieId
        rows == SelectSeq(MoviesCsv, Mine)
    IN  [j \in 1..Len(rows) |->
            [title |-> rows[j].title,
             releaseYear |-> ParseReleaseYear(rows[j].title)]]

\* The `ratings` array of the call: the rows of ratings.csv with this movieId.
ReadRatings(csv, movieId) ==
    LET Mine(rec) == rec.movieId = movieId
        rows == SelectSeq(csv, Mine)
    IN  [j \in 1..Len(rows) |->
            [timestamp |-> rows[j].timestamp, rating |-> rows[j].rating]]

\* !v for a release year: null and 0 are falsy.
Falsy(v) == v = NullYear \/ v = 0

\* movies.length === 0 || !movies[0].releaseYear
MovieUnusable(movies) ==
    IF Len(movies) = 0 THEN TRUE ELSE Falsy(movies[1].releaseYear)

\* ratings.sort((a, b) => a.timestamp - b.timestamp): a stable sort.
InsertByTimestamp(sorted, r) ==
    LET NotAfter(x) == x.timestamp <= r.timestamp
        After(x) == x.timestamp > r.timestamp
    IN  SelectSeq(sorted, NotAfter) \o <<r>> \o SelectSeq(sorted, After)

RECURSIVE SortFrom(_, _)
SortFrom(sorted, rest) ==
    IF rest = <<>> THEN sorted
    ELSE SortFrom(InsertByTimestamp(sorted, Head(rest)), Tail(rest))

SortByTimestamp(rs) == SortFrom(<<>>, rs)

\* The number of leap years before year y (proleptic Gregorian calendar).
LeapsBefore(y) == (y - 1) \div 4 - (y - 1) \div 100 + (y - 1) \div 400

\* Seconds from the epoch to Jan 1 00:00 UTC of year y.
UtcJan1(y) == ((y - 1970) * 365 + LeapsBefore(y) - LeapsBefore(1970)) * 86400

\* The Date constructor reads a year of 0..99 as 1900 + year.
DateFullYear(y) == IF y >= 0 /\ y <= 99 THEN 1900 + y ELSE y

\* new Date(year, 0, 1).getTime() / 1000: Jan 1 00:00 of the year in the
\* server's local time, tz seconds ahead of UTC.
ReleaseTimestamp(year, tz) == UtcJan1(DateFullYear(year)) - tz

segmentDuration == 30 * 24 * 60 * 60

\* Math.ceil(a / b) for b > 0.
CeilDiv(a, b) == -((-a) \div b)

RECURSIVE MaxTimestamp(_)
MaxTimestamp(rs) ==
    IF Len(rs) = 1 THEN rs[1].timestamp
    ELSE LET m == MaxTimestamp(Tail(rs))
         IN  IF rs[1].timestamp > m THEN rs[1].timestamp ELSE m

\* Math.ceil((maxTime - releaseTimestamp) / segmentDuration), for at least
\* one rating.
NumSegments(rs, anchor) ==
    CeilDiv(MaxTimestamp(rs) - anchor, segmentDuration)

\* The loop test i < numSegments.  With no rating Math.max() is -Infinity,
\* so is numSegments, and the test is false.
LoopRuns(rs, anchor, i) == rs # <<>> /\ i < NumSegments(rs, anchor)

\* A plausible slip: window i taken to start where it ends.
SegmentStartOffByOne(anchor, i) == anchor + (i + 1) * segmentDuration

SegmentStart(anchor, i) == anchor + i * segmentDuration

SegmentEnd(startTime) == startTime + segmentDuration

\* A plausible slip: the end of the window taken as inclusive.
InSegmentInclusive(r, startTime, endTime) ==
    r.timestamp >= startTime /\ r.timestamp <= endTime

\* r.timestamp >= startTime && r.timestamp < endTime
InSegment(r, startTime, endTime) ==
    r.timestamp >= startTime /\ r.timestamp < endTime

\* The segment pushed for window i, if any: <<segment>> or <<>>.
SegmentAt(rs, anchor, i) ==
    LET startTime == SegmentStart(anchor, i)
        endTime == SegmentEnd(startTime)
        Within(r) == InSegment(r, startTime, endTime)
        segmentRatings == SelectSeq(rs, Within)
    IN  IF Len(segmentRatings) > 0
        THEN << [startTime |-> startTime,
                 endTime |-> endTime,
                 averageRating |->
                    << SumSeq([j \in 1..Len(segmentRatings) |->
                                   segmentRatings[j].rating]),
                       Len(segmentRatings) >>,
                 ratingCount |-> Len(segmentRatings)] >>
        ELSE <<>>

\* for (let i = 0; i < numSegments; i++) { ... }
RECURSIVE SegmentsFrom(_, _, _)
SegmentsFrom(rs, anchor, i) ==
    IF LoopRuns(rs, anchor, i)
    THEN SegmentAt(rs, anchor, i) \o SegmentsFrom(rs, anchor, i + 1)
    ELSE <<>>

\* Lines 615-651: the result built from the two arrays read.
LifecycleResult(movies, rs, tz) ==
    LET sorted == SortByTimestamp(rs)
        anchor == ReleaseTimestamp(movies[1].releaseYear, tz)
    IN  [movie |-> movies[1],
         ratings |-> sorted,
         timeSegments |-> SegmentsFrom(sorted, anchor, 0)]

\* `movie_lifecycle_${movieId}`
LifecycleKey(movieId) == <<"movie_lifecycle", movieId>>

\* The time to live every cacheManager.set of the service asks for, in
\* milliseconds.
CacheTtl == 3600000

\* A plausible slip: the value returned without being stored.
CacheSetSkipped(c, key, value, ttl) == c

\* cacheManager.set(key, value, ttl); entries do not expire within a run.
CacheSet(c, key, value, ttl) ==
    [x \in DOMAIN c \cup {key} |->
        IF x = key THEN [value |-> value, ttl |-> ttl] ELSE c[x]]

\* The timestamps of the rows of ratings.csv: around Jan 1 2000 00:00 UTC,
\* one second before it, on it, on Jan 15, one and two windows later.
TimestampChoices ==
    {UtcJan1(2000) - 1,
     UtcJan1(2000),
     UtcJan1(2000) + 14 * 86400,
     UtcJan1(2000) + segmentDuration,
     UtcJan1(2000) + 2 * segmentDuration + 7}

\* Ratings in half stars: 1.5 and 5.0.
RatingChoices == {3, 10}

\* Rows for movie 1 at every timestamp and rating, and one row for movie 4.
RatingRows ==
    [movieId : {1}, timestamp : TimestampChoices, rating : RatingChoices]
    \cup {[movieId |-> 4, timestamp |-> UtcJan1(2000) + 14 * 86400, rating |-> 7]}

TimezoneOffsets == {0, 3600}

\* No lifecycle request in this run.
LcLocalsOff ==
    /\ lcPc = "off"
    /\ lcMovieId = 0
    /\ lcResult = NoValue
    /\ lcError = NoValue
    /\ lcTrace = <<>>

LcOff ==
    /\ ratingsCsv = <<>>
    /\ tzOffset = 0
    /\ cache = <<>>
    /\ LcLocalsOff

LcInit ==
    /\ ratingsCsv \in UNION {[1..n -> RatingRows] : n \in 0..MaxRatings}
    /\ tzOffset \in TimezoneOffsets
    /\ cache = <<>>
    /\ lcPc = "idle"
    /\ lcMovieId = 0
    /\ lcResult = NoValue
    /\ lcError = NoValue
    /\ lcTrace = <<>>

\* Lines 543-563: the call, the cache lookup, and a hit returned.
LcCacheHit ==
    /\ lcPc = "idle"
    /\ \E m \in RequestIds :
          /\ LifecycleKey(m) \in DOMAIN cache
          /\ lcMovieId' = m
          /\ lcResult' = cache[LifecycleKey(m)].value
    /\ lcPc' = "returned"
    /\ lcTrace' = <<"get">>
    /\ UNCHANGED <<ratingsCsv, tzOffset, cache, lcError>>
    /\ UNCHANGED notLc

\* Lines 543-546: the call and the cache lookup, which misses.
LcCacheMiss ==
    /\ lcPc = "idle"
    /\ \E m \in RequestIds :
          /\ LifecycleKey(m) \notin DOMAIN cache
          /\ lcMovieId' = m
    /\ lcPc' = "miss"
    /\ lcTrace' = <<"get">>
    /\ UNCHANGED <<ratingsCsv, tzOffset, cache, lcResult, lcError>>
    /\ UNCHANGED notLc

\* A plausible slip: the failure stored under the key before the throw.
LcThrowStoring ==
    /\ lcPc = "miss"
    /\ MovieUnusable(ReadMovies(lcMovieId))
    /\ lcError' = [class |-> "Error",
                   message |-> "Movie not found or release year not available"]
    /\ cache' = CacheSet(cache, LifecycleKey(lcMovieId), NoValue, CacheTtl)
    /\ lcPc' = "failed"
    /\ lcTrace' = Append(lcTrace, "read")
    /\ UNCHANGED <<ratingsCsv, tzOffset, lcMovieId, lcResult>>
    /\ UNCHANGED notLc

\* Lines 565-613: both files read, then the throw.
LcThrow ==
    /\ lcPc = "miss"
    /\ MovieUnusable(ReadMovies(lcMovieId))
    /\ lcError' = [class |-> "Error",
                   message |-> "Movie not found or release year not available"]
    /\ lcPc' = "failed"
    /\ lcTrace' = Append(lcTrace, "read")
    /\ UNCHANGED <<ratingsCsv, tzOffset, cache, lcMovieId, lcResult>>
    /\ UNCHANGED notLc

\* Lines 565-651: both files read and the result built.
LcCompute ==
    /\ lcPc = "miss"
    /\ ~MovieUnusable(ReadMovies(lcMovieId))
    /\ lcResult' = LifecycleResult(ReadMovies(lcMovieId),
                                   ReadRatings(ratingsCsv, lcMovieId), tzOffset)
    /\ lcPc' = "computed"
    /\ lcTrace' = Append(lcTrace, "read")
    /\ UNCHANGED <<ratingsCsv, tzOffset, cache, lcMovieId, lcError>>
    /\ UNCHANGED notLc

\* Lines 653-654: the result stored, then returned.
LcStore ==
    /\ lcPc = "computed"
    /\ cache' = CacheSet(cache, LifecycleKey(lcMovieId), lcResult, CacheTtl)
    /\ lcPc' = "returned"
    /\ lcTrace' = Append(lcTrace, "set")
    /\ UNCHANGED <<ratingsCsv, tzOffset, lcMovieId, lcResult, lcError>>
    /\ UNCHANGED notLc

\* The caller has the result or the error; the service awaits the next call.
LcFinish ==
    /\ lcPc \in {"returned", "failed"}
    /\ lcPc' = "idle"
    /\ lcMovieId' = 0
    /\ lcResult' = NoValue
    /\ lcError' = NoValue
    /\ lcTrace' = <<>>
    /\ UNCHANGED <<ratingsCsv, tzOffset, cache>>
    /\ UNCHANGED notLc

LcNext ==
    LcCacheHit \/ LcCacheMiss \/ LcThrow \/ LcCompute \/ LcStore \/ LcFinish

(***************************************************************************)
(* MovieLensService.getUserPreferences                                     *)
(***************************************************************************)

\* Bound of the preference model: the rows of ratings.csv.
MaxUserRatings == 3

\* The user ids of the rows of ratings.csv.
UserIds == 1..2

SampleLimit == 5

\* movieMap.get(movieId): the last row of movies.csv with the id, as a
\* sequence of none or one.
MovieLookup(movieId) ==
    LET at == {j \in 1..Len(MoviesCsv) : MoviesCsv[j].movieId = movieId}
    IN  IF at = {} THEN <<>>
        ELSE <<MoviesCsv[CHOOSE j \in at : \A i \in at : i <= j]>>

\* The keys of userRatings in insertion order: user ids by first row.
RECURSIVE UsersInOrder(_, _)
UsersInOrder(rows, seen) ==
    IF rows = <<>> THEN <<>>
    ELSE IF Head(rows).userId \in seen THEN UsersInOrder(Tail(rows), seen)
    ELSE <<Head(rows).userId>>
         \o UsersInOrder(Tail(rows), seen \cup {Head(rows).userId})

\* A plausible slip: the rows of the user, the latest first.
RatingsOfLatestFirst(rows, userId) ==
    LET Mine(rec) == rec.userId = userId
        mine == SelectSeq(rows, Mine)
    IN  [j \in 1..Len(mine) |-> mine[Len(mine) + 1 - j]]

\* userRatings.get(userId): the rows of the user, in order.
RatingsOf(rows, userId) ==
    LET Mine(rec) == rec.userId = userId
    IN  SelectSeq(rows, Mine)

\* What parseInt and parseFloat give for a field that is no number.
\* Parsed ids and ratings are positive.
NaN == -1

\* a + b of two numbers: NaN when either is NaN.
Plus(a, b) == IF a = NaN \/ b = NaN THEN NaN ELSE a + b

\* A plausible slip: the ratings of a genre counted, not added up.
AddWeightCounted(prefs, genre, rating) ==
    IF \E j \in 1..Len(prefs) : prefs[j].genre = genre
    THEN [j \in 1..Len(prefs) |->
            IF prefs[j].genre = genre
            THEN [genre |-> genre, value |-> prefs[j].value + 1]
            ELSE prefs[j]]
    ELSE Append(prefs, [genre |-> genre, value |-> 1])

\* genrePreferences[genre] = (genrePreferences[genre] || 0) + rating, on a
\* map held as the sequence of its entries [genre, value] in key order.
\* A value of NaN is falsy, as is undefined: 0 is taken for it.
AddWeight(prefs, genre, rating) ==
    IF \E j \in 1..Len(prefs) : prefs[j].genre = genre
    THEN [j \in 1..Len(prefs) |->
            IF prefs[j].genre = genre
            THEN [genre |-> genre,
                  value |-> Plus(IF prefs[j].value = NaN THEN 0
                                 ELSE prefs[j].value,
                                 rating)]
            ELSE prefs[j]]
    ELSE Append(prefs, [genre |-> genre, value |-> Plus(0, rating)])

\* genre !== '(no genres listed)'
CountsAsGenre(genre) == genre # "(no genres listed)"

\* movie.genres.forEach(...) of lines 371-375.
RECURSIVE AddGenres(_, _, _)
AddGenres(prefs, genres, rating) ==
    IF genres = <<>> THEN prefs
    ELSE AddGenres(IF CountsAsGenre(Head(genres))
                   THEN AddWeight(prefs, Head(genres), rating)
                   ELSE prefs,
                   Tail(genres), rating)

\* ratings.forEach(...) of lines 368-385, on the pair of the two locals.
RECURSIVE Accumulate(_, _)
Accumulate(acc, rows) ==
    IF rows = <<>> THEN acc
    ELSE LET found == MovieLookup(Head(rows).movieId)
         IN  IF found = <<>> THEN Accumulate(acc, Tail(rows))
             ELSE LET movie == found[1]
                  IN  Accumulate(
                        [genrePreferences |->
                            AddGenres(acc.genrePreferences, movie.genres,
                                      Head(rows).rating),
                         sampleRatings |->
                            IF Len(acc.sampleRatings) < SampleLimit
                            THEN Append(acc.sampleRatings,
                                        [movieId |-> movie.movieId,
                                         title |-> movie.title,
                                         rating |-> Head(rows).rating,
                                         genres |-> movie.genres])
                            ELSE acc.sampleRatings],
                        Tail(rows))

\* A plausible slip: the number of genres taken for the total.
TotalAsGenreCount(prefs) == Len(prefs)

\* Object.values(genrePreferences).reduce((a, b) => a + b, 0)
TotalRatings(prefs) ==
    IF \E j \in 1..Len(prefs) : prefs[j].value = NaN THEN NaN
    ELSE SumSeq([j \in 1..Len(prefs) |-> prefs[j].value])

\* Lines 388-390: every value divided by the total, as a fraction; a
\* quotient with NaN on either side is NaN, held as <<NaN, 1>>.
Normalize(prefs) ==
    LET totalRatings == TotalRatings(prefs)
    IN  [j \in 1..Len(prefs) |->
            [genre |-> prefs[j].genre,
             value |-> IF prefs[j].value = NaN \/ totalRatings = NaN
                       THEN <<NaN, 1>>
                       ELSE <<prefs[j].value, totalRatings>>]]

\* The body of userRatings.forEach(...), lines 364-397, for one user.
UserPreferenceOf(rows, userId) ==
    LET acc == Accumulate([genrePreferences |-> <<>>, sampleRatings |-> <<>>],
                          RatingsOf(rows, userId))
    IN  [userId |-> userId,
         genrePreferences |-> Normalize(acc.genrePreferences),
         sampleRatings |-> acc.sampleRatings]

\* The array getUserPreferences returns for the rows of ratings.csv.
BuildUserPreferences(rows) ==
    LET users == UsersInOrder(rows, {})
    IN  [j \in 1..Len(users) |-> UserPreferenceOf(rows, users[j])]

UserRatingRows ==
    [userId : UserIds, movieId : {1, 2, 3, 5}, rating : RatingChoices]

\* Bound of the sample model: the rows of ratings.csv, enough for a user
\* to have more ratings than SampleLimit.
MaxSampleRows == 7

\* Rows of user 1 on movies 1 and 3 and on movie 5, which movies.csv
\* lacks, and one row of user 2.
SampleRows ==
    [userId : {1}, movieId : {1, 3, 5}, rating : {3}]
    \cup {[userId |-> 2, movieId |-> 1, rating |-> 10]}

\* Rows of user 1, and rows with a field that is no number: the rating,
\* the movie id, the user id.
MalformedRows ==
    [userId : {1}, movieId : {1, 3}, rating : RatingChoices]
    \cup {[userId |-> 1, movieId |-> 1, rating |-> NaN],
          [userId |-> 1, movieId |-> NaN, rating |-> 3],
          [userId |-> NaN, movieId |-> 1, rating |-> 3]}

\* No preference request in this run.
UpOff ==
    /\ userRatingsCsv = <<>>
    /\ upPc = "off"
    /\ userPreferences = <<>>
    /\ pcaMatrix = <<>>
    /\ pcaEmbeddings = <<>>

UpInit ==
    /\ userRatingsCsv
          \in UNION {[1..n -> UserRatingRows] : n \in 0..MaxUserRatings}
    /\ upPc = "idle"
    /\ userPreferences = <<>>
    /\ pcaMatrix = <<>>
    /\ pcaEmbeddings = <<>>

\* getUserPreferences(): both files read, the array built and returned.
GetUserPreferences ==
    /\ upPc = "idle"
    /\ userPreferences' = BuildUserPreferences(userRatingsCsv)
    /\ upPc' = "done"
    /\ UNCHANGED <<userRatingsCsv, pcaMatrix, pcaEmbeddings>>
    /\ UNCHANGED notUp

\* What the PCA library may return for one row of the matrix (the library
\* is not part of the service): any of these.
PcaPoints == {[x |-> 0, y |-> 0, den |-> 1], [x |-> 3, y |-> 4, den |-> 1]}

\* allGenres after lines 408-411: the keys added to a Set, which keeps
\* the first of equal keys, in the order of insertion.
RECURSIVE AddAllGenres(_, _)
AddAllGenres(allGenres, keys) ==
    IF keys = <<>> THEN allGenres
    ELSE AddAllGenres(IF \E j \in 1..Len(allGenres) : allGenres[j] = Head(keys)
                      THEN allGenres
                      ELSE Append(allGenres, Head(keys)),
                      Tail(keys))

\* pref.genrePreferences[genre] ?? 0, a number being a fraction.
PreferenceOrZero(pref, genre) ==
    LET at == {j \in 1..Len(pref.genrePreferences) :
                  pref.genrePreferences[j].genre = genre}
    IN  IF at = {} THEN <<0, 1>>
        ELSE pref.genrePreferences[CHOOSE j \in at : TRUE].value

\* A plausible slip: Object.values(pref.genrePreferences) for the row.
PcaMatrixOfOwnValues(prefs) ==
    [u \in 1..Len(prefs) |->
        [j \in 1..Len(prefs[u].genrePreferences) |->
            prefs[u].genrePreferences[j].value]]

\* Lines 408-416: genreList and the matrix.
PcaMatrix(prefs) ==
    LET keys(u) == [j \in 1..Len(prefs[u].genrePreferences) |->
                      prefs[u].genrePreferences[j].genre]
        genreList == AddAllGenres(<<>>, FlatMap([u \in 1..Len(prefs) |->
                                                  keys(u)]))
    IN  [u \in 1..Len(prefs) |->
            [g \in 1..Len(genreList) |->
                PreferenceOrZero(prefs[u], genreList[g])]]

\* applyPCAOnUserPreferences(userPreferences), lines 407-426, called on the
\* array getUserPreferences returned.  The PCA library is not part of the
\* service: it gives one row of two coordinates per row of the matrix,
\* here any of PcaPoints.
ApplyPCA ==
    /\ upPc = "done"
    /\ pcaMatrix' = PcaMatrix(userPreferences)
    /\ \E projected \in [1..Len(userPreferences) -> PcaPoints] :
          pcaEmbeddings' =
              [i \in 1..Len(projected) |->
                  [userId |-> userPreferences[i].userId,
                   pc1 |-> <<projected[i].x, projected[i].den>>,
                   pc2 |-> <<projected[i].y, projected[i].den>>]]
    /\ upPc' = "projected"
    /\ UNCHANGED <<userRatingsCsv, userPreferences>>
    /\ UNCHANGED notUp

\* The caller has the array; the service awaits the next call.
UpFinish ==
    /\ upPc \in {"done", "projected"}
    /\ upPc' = "idle"
    /\ userPreferences' = <<>>
    /\ pcaMatrix' = <<>>
    /\ pcaEmbeddings' = <<>>
    /\ UNCHANGED userRatingsCsv
    /\ UNCHANGED notUp

UpNext == GetUserPreferences \/ ApplyPCA \/ UpFinish

(***************************************************************************)
(* MovieLensService.getMovieStats: the genre distribution                  *)
(***************************************************************************)

\* movie.genres.forEach(...) of lines 144-148, on genreCounts held as the
\* sequence of its entries [genre, count] in key order:
\* genreCounts[genre] = (genreCounts[genre] || 0) + 1.
RECURSIVE CountGenres(_, _)
CountGenres(counts, genres) ==
    IF genres = <<>> THEN counts
    ELSE LET genre == Head(genres)
             counted ==
                IF \E j \in 1..Len(counts) : counts[j].genre = genre
                THEN [j \in 1..Len(counts) |->
                        IF counts[j].genre = genre
                        THEN [genre |-> genre, count |-> counts[j].count + 1]
                        ELSE counts[j]]
                ELSE Append(counts, [genre |-> genre, count |-> 1])
         IN  CountGenres(IF genre # "(no genres listed)" THEN counted
                         ELSE counts,
                         Tail(genres))

\* genres.forEach(...) of lines 143-149, over the movies of the repository.
RECURSIVE GenreCounts(_, _)
GenreCounts(counts, movies) ==
    IF movies = <<>> THEN counts
    ELSE GenreCounts(CountGenres(counts, Head(movies).genres), Tail(movies))

\* stats, lines 142-158, from the count and the rows the two queries gave
\* (totalMovies > 0); (count / totalMovies * 100).toFixed(2) is held as
\* hundredths of a percent.
MovieStats(totalMovies, genres) ==
    LET genreCounts == GenreCounts(<<>>, genres)
    IN  [totalMovies |-> totalMovies,
         genreDistribution |->
            [j \in 1..Len(genreCounts) |->
                [genre |-> genreCounts[j].genre,
                 count |-> genreCounts[j].count,
                 percentage |->
                     (2 * 10000 * genreCounts[j].count + totalMovies)
                         \div (2 * totalMovies)]]]

\* stats.genreDistribution for the repository importMovies fills from
\* movies.csv.
GenreDistribution(movies) ==
    MovieStats(Len(movies), movies).genreDistribution

(***************************************************************************)
(* MovieLensService.getTemporalRatingPatterns                              *)
(***************************************************************************)

\* Bound of the temporal model: the rows of ratings.csv.
MaxPatternRatings == 2

\* The call without a genre: `genre ?` is false for undefined and for "".
NoGenre == ""

\* The genre arguments of the calls.
GenreFilters == {NoGenre, "Comedy", "(no genres listed)"}

\* `temporal_patterns${genre ? `_${genre}` : ''}`
TemporalKey(genre) ==
    IF genre = NoGenre THEN <<"temporal_patterns">>
    ELSE <<"temporal_patterns", genre>>

\* Lines 495-502: the rating passes the genre filter, that is, there is no
\* filter, or movieMap has the movie and movie.genres.includes(genre).
PassesGenreFilter(rating, genre) ==
    IF genre = NoGenre THEN TRUE
    ELSE LET found == MovieLookup(rating.movieId)
         IN  IF found = <<>> THEN FALSE
             ELSE \E j \in 1..Len(found[1].genres) : found[1].genres[j] = genre

\* new Date(timestamp * 1000).getDay(), for a server tz seconds ahead of
\* UTC: Jan 1 1970 was a Thursday (4).
GetDay(timestamp, tz) == (4 + ((timestamp + tz) \div 86400)) % 7

\* new Date(timestamp * 1000).getHours()
GetHours(timestamp, tz) == ((timestamp + tz) % 86400) \div 3600

\* Lines 492-515: the grid ratings.forEach(...) fills, flattened day by day
\* and hour by hour.
TemporalPatterns(rs, genre, tz) ==
    LET patterns(dayOfWeek, hour) ==
            Cardinality({j \in 1..Len(rs) :
                            /\ PassesGenreFilter(rs[j], genre)
                            /\ GetDay(rs[j].timestamp, tz) = dayOfWeek
                            /\ GetHours(rs[j].timestamp, tz) = hour})
    IN  [n \in 1..(7 * 24) |->
            [dayOfWeek |-> (n - 1) \div 24,
             hour |-> (n - 1) % 24,
             count |-> patterns((n - 1) \div 24, (n - 1) % 24)]]

\* The timestamps of the rows: Saturday Jan 1 2000 00:00:00 and 23:59:59
\* UTC, and Monday Jan 3 2000 05:00 UTC.
PatternTimestamps ==
    {UtcJan1(2000), UtcJan1(2000) + 86399, UtcJan1(2000) + 2 * 86400 + 5 * 3600}

\* Rows for movie 1 (Action|Comedy), movie 2 ((no genres listed)) and
\* movie 5 (not in movies.csv).
PatternRows ==
    [movieId : {1, 2, 5}, timestamp : PatternTimestamps, rating : {10}]

\* No temporal request in this run.
TpOff ==
    /\ tpPc = "off"
    /\ tpGenre = NoGenre
    /\ tpResult = NoValue

TpInit ==
    /\ ratingsCsv \in UNION {[1..n -> PatternRows] : n \in 0..MaxPatternRatings}
    /\ tzOffset \in TimezoneOffsets
    /\ cache = <<>>
    /\ LcLocalsOff
    /\ tpPc = "idle"
    /\ tpGenre = NoGenre
    /\ tpResult = NoValue

\* Lines 443-452: the call, the cache lookup, and a hit returned.
TpCacheHit ==
    /\ tpPc = "idle"
    /\ \E g \in GenreFilters :
          /\ TemporalKey(g) \in DOMAIN cache
          /\ tpGenre' = g
          /\ tpResult' = cache[TemporalKey(g)].value
    /\ tpPc' = "returned"
    /\ UNCHANGED <<lcVars, notTp>>

\* Lines 443-446: the call and the cache lookup, which misses.
TpCacheMiss ==
    /\ tpPc = "idle"
    /\ \E g \in GenreFilters :
          /\ TemporalKey(g) \notin DOMAIN cache
          /\ tpGenre' = g
    /\ tpPc' = "miss"
    /\ UNCHANGED tpResult
    /\ UNCHANGED <<lcVars, notTp>>

\* Lines 454-515: the files read and the result built.
TpCompute ==
    /\ tpPc = "miss"
    /\ tpResult' = TemporalPatterns(ratingsCsv, tpGenre, tzOffset)
    /\ tpPc' = "computed"
    /\ UNCHANGED tpGenre
    /\ UNCHANGED <<lcVars, notTp>>

\* Lines 517-518: the result stored, then returned.
TpStore ==
    /\ tpPc = "computed"
    /\ cache' = CacheSet(cache, TemporalKey(tpGenre), tpResult, CacheTtl)
    /\ tpPc' = "returned"
    /\ UNCHANGED <<tpGenre, tpResult>>
    /\ UNCHANGED <<ratingsCsv, tzOffset, lcLocals, notTp>>

\* The caller has the result; the service awaits the next call.
TpFinish ==
    /\ tpPc = "returned"
    /\ tpPc' = "idle"
    /\ tpGenre' = NoGenre
    /\ tpResult' = NoValue
    /\ UNCHANGED <<lcVars, notTp>>

TpNext == TpCacheHit \/ TpCacheMiss \/ TpCompute \/ TpStore \/ TpFinish

(***************************************************************************)
(* MovieLensService.getUserTasteClusters and getUserTasteClustersFromPCA,  *)
(* called by two concurrent requests                                       *)
(*                                                                         *)
(* A coordinate is a fraction: a point is [x, y, den] for (x / den,        *)
(* y / den), in lowest terms.  Math.cos(i) and Math.sin(i) are taken to    *)
(* two decimals.  KMeans works on the points brought to their common       *)
(* denominator: nearest centroids and means do not change when every       *)
(* coordinate is multiplied by the same positive number.                   *)
(***************************************************************************)

\* Bound of the clustering model: the rows of ratings.csv.
MaxTasteRatings == 2

\* The requests in flight at the same time.
Procs == 1..2

\* The cache keys of the two operations, which name the operation too.
TasteOps == {"user_taste_clusters", "user_taste_clusters_pca"}

\* new KMeans(5)
TasteK == 5

\* The unit of the two tables below: hundredths.
TrigScale == 100

\* Math.cos(i) and Math.sin(i) for i = 0, 1, 2, 3 (radians), in hundredths.
TrigHundredths == [cos |-> <<100, 54, -42, -99>>, sin |-> <<0, 84, 91, 14>>]

\* Lines 284-289 for one user: Object.values(user.genrePreferences) summed
\* with weights Math.cos(i) and Math.sin(i), i the position of the value.
TrigPoint(user) ==
    LET prefs == user.genrePreferences
        total == IF prefs = <<>> THEN 1 ELSE prefs[1].value[2]
        x == SumSeq([i \in 1..Len(prefs) |->
                        prefs[i].value[1] * TrigHundredths.cos[i]])
        y == SumSeq([i \in 1..Len(prefs) |->
                        prefs[i].value[1] * TrigHundredths.sin[i]])
        g == GCD(GCD(Abs(x), Abs(y)), TrigScale * total)
    IN  [x |-> x \div g, y |-> y \div g, den |-> (TrigScale * total) \div g]

\* The least common multiple of the denominators of the points.
RECURSIVE CommonDenominator(_)
CommonDenominator(points) ==
    IF points = <<>> THEN 1
    ELSE LET rest == CommonDenominator(Tail(points))
         IN  (Head(points).den * rest) \div GCD(Head(points).den, rest)

\* points.map(p => [p.x, p.y]), on the common denominator.
FitInput(points) ==
    LET den == CommonDenominator(points)
    IN  [i \in 1..Len(points) |->
            << points[i].x * (den \div points[i].den),
               points[i].y * (den \div points[i].den) >>]

\* The do-while of KMeans.fit, lines 736-740, run to its end.
RECURSIVE FitLoop(_, _, _)
FitLoop(d, cs, oldCl) ==
    LET cl == assignClusters(d, cs)
        updated == updateCentroids(d, cl, cs)
    IN  IF areClustersEqual(cl, oldCl)
        THEN [clusters |-> cl, centroids |-> updated]
        ELSE FitLoop(d, updated, cl)

\* new KMeans(kk).fit(d) when Math.random picks the points `pick`: the
\* labels returned and the centroids left in the object, which is the
\* call's own.
Fit(d, kk, pick) ==
    FitLoop(d, [i \in 0..(kk - 1) |-> CopyPoint(d[pick[i]])], <<>>)

\* A plausible slip: the labels read from the far end.
TasteResultsLabelsReversed(prefs, points, cl) ==
    [i \in 1..Len(prefs) |->
        [userId |-> prefs[i].userId,
         x |-> <<points[i].x, points[i].den>>,
         y |-> <<points[i].y, points[i].den>>,
         cluster |-> cl[Len(prefs) + 1 - i],
         sampleRatings |-> prefs[i].sampleRatings]]

\* Lines 294-300 and 695-701: userPreferences.map((user, i) => ...).
TasteResults(prefs, points, cl) ==
    [i \in 1..Len(prefs) |->
        [userId |-> prefs[i].userId,
         x |-> <<points[i].x, points[i].den>>,
         y |-> <<points[i].y, points[i].den>>,
         cluster |-> cl[i],
         sampleRatings |-> prefs[i].sampleRatings]]

\* Rows of ratings.csv: user 1 on movie 1 (Action|Comedy) and on movie 3
\* (Comedy), user 2 on movie 3 and on movie 2 ((no genres listed)).
TasteRows ==
    {[userId |-> 1, movieId |-> 1, rating |-> 10],
     [userId |-> 1, movieId |-> 3, rating |-> 10],
     [userId |-> 2, movieId |-> 3, rating |-> 10],
     [userId |-> 2, movieId |-> 2, rating |-> 10]}

\* A ratings.csv of three users, the first two with the same preferences:
\* users 1 and 3 on movie 1, user 2 on movie 3.
ThreeUserRatings ==
    << [userId |-> 1, movieId |-> 1, rating |-> 10],
       [userId |-> 3, movieId |-> 1, rating |-> 10],
       [userId |-> 2, movieId |-> 3, rating |-> 10] >>

\* The ratings.csv files of the runs.
TasteDatasets ==
    {ThreeUserRatings}
    \cup UNION {[1..n -> TasteRows] : n \in 0..MaxTasteRatings}

\* For every input the runs hand to fit, the label vectors
\* new KMeans(5).fit(input) can return, one per choice of Math.random.
FitOutcomes ==
    LET InputsOf(csv) ==
            LET prefs == BuildUserPreferences(csv)
            IN  {FitInput([i \in 1..Len(prefs) |-> TrigPoint(prefs[i])])}
                \cup {FitInput(rows) : rows \in [1..Len(prefs) -> PcaPoints]}
    IN  [d \in UNION {InputsOf(csv) : csv \in TasteDatasets} |->
            {Fit(d, TasteK, pick).clusters :
                pick \in [0..(TasteK - 1) -> 1..Len(d)]}]

\* No clustering request in this run.
TcOff ==
    /\ pcaOutput = <<>>
    /\ tcPc = [p \in Procs |-> "off"]
    /\ tcOp = [p \in Procs |-> NoValue]
    /\ tcResult = [p \in Procs |-> NoValue]
    /\ tcTrace = [p \in Procs |-> <<>>]

TcInit ==
    /\ userRatingsCsv \in TasteDatasets
    /\ upPc = "off"
    /\ userPreferences = <<>>
    /\ pcaMatrix = <<>>
    /\ pcaEmbeddings = <<>>
    /\ cache = <<>>
    /\ ratingsCsv = <<>>
    /\ tzOffset = 0
    /\ LcLocalsOff
    /\ pcaOutput \in [1..Len(BuildUserPreferences(userRatingsCsv)) -> PcaPoints]
    /\ tcPc = [p \in Procs |-> "idle"]
    /\ tcOp = [p \in Procs |-> NoValue]
    /\ tcResult = [p \in Procs |-> NoValue]
    /\ tcTrace = [p \in Procs |-> <<>>]

\* Lines 271-279 and 680-688: the call, the cache lookup, a hit returned.
TcCacheHit(p) ==
    /\ tcPc[p] = "idle"
    /\ \E op \in TasteOps :
          /\ <<op>> \in DOMAIN cache
          /\ tcOp' = [tcOp EXCEPT ![p] = op]
          /\ tcResult' = [tcResult EXCEPT ![p] = cache[<<op>>].value]
    /\ tcPc' = [tcPc EXCEPT ![p] = "returned"]
    /\ tcTrace' = [tcTrace EXCEPT ![p] = <<"get">>]
    /\ UNCHANGED <<cache, pcaOutput>>
    /\ UNCHANGED <<ratingsCsv, tzOffset, lcLocals, kmVars, upVars, tpVars, drVars,
                       ciVars, imVars>>

\* Lines 271-274 and 680-683: the call and the cache lookup, which misses;
\* the request then awaits getUserPreferences().
TcCacheMiss(p) ==
    /\ tcPc[p] = "idle"
    /\ \E op \in TasteOps :
          /\ <<op>> \notin DOMAIN cache
          /\ tcOp' = [tcOp EXCEPT ![p] = op]
    /\ tcPc' = [tcPc EXCEPT ![p] = "miss"]
    /\ tcTrace' = [tcTrace EXCEPT ![p] = <<"get">>]
    /\ UNCHANGED <<tcResult, cache, pcaOutput>>
    /\ UNCHANGED <<ratingsCsv, tzOffset, lcLocals, kmVars, upVars, tpVars, drVars,
                       ciVars, imVars>>

\* Lines 282-300 and 690-701 when there are users: the preferences read,
\* the points projected, a KMeans of its own fitted from the centroids
\* Math.random picks, and the results built.
TcCompute(p) ==
    /\ tcPc[p] = "miss"
    /\ LET prefs == BuildUserPreferences(userRatingsCsv)
           points == IF tcOp[p] = "user_taste_clusters"
                     THEN [i \in 1..Len(prefs) |-> TrigPoint(prefs[i])]
                     ELSE pcaOutput
       IN  /\ prefs # <<>>
           /\ \E cl \in FitOutcomes[FitInput(points)] :
                 tcResult' = [tcResult EXCEPT ![p] =
                                 TasteResults(prefs, points, cl)]
    /\ tcPc' = [tcPc EXCEPT ![p] = "computed"]
    /\ tcTrace' = [tcTrace EXCEPT ![p] = Append(tcTrace[p], "read")]
    /\ UNCHANGED <<tcOp, cache, pcaOutput>>
    /\ UNCHANGED <<ratingsCsv, tzOffset, lcLocals, kmVars, upVars, tpVars, drVars,
                       ciVars, imVars>>

\* The same lines when ratings.csv has no row: fit reads data[0] of an
\* empty array and [...undefined] throws a TypeError.
TcThrow(p) ==
    /\ tcPc[p] = "miss"
    /\ BuildUserPreferences(userRatingsCsv) = <<>>
    /\ tcPc' = [tcPc EXCEPT ![p] = "failed"]
    /\ tcTrace' = [tcTrace EXCEPT ![p] = Append(tcTrace[p], "read")]
    /\ UNCHANGED <<tcOp, tcResult, cache, pcaOutput>>
    /\ UNCHANGED <<ratingsCsv, tzOffset, lcLocals, kmVars, upVars, tpVars, drVars,
                       ciVars, imVars>>

\* Lines 302-303 and 704-705: the results stored, then returned.
TcStore(p) ==
    /\ tcPc[p] = "computed"
    /\ cache' = CacheSet(cache, <<tcOp[p]>>, tcResult[p], CacheTtl)
    /\ tcPc' = [tcPc EXCEPT ![p] = "returned"]
    /\ tcTrace' = [tcTrace EXCEPT ![p] = Append(tcTrace[p], "set")]
    /\ UNCHANGED <<tcOp, tcResult, pcaOutput>>
    /\ UNCHANGED <<ratingsCsv, tzOffset, lcLocals, kmVars, upVars, tpVars, drVars,
                       ciVars, imVars>>

\* The caller has the results or the error; the request is over.
TcFinish(p) ==
    /\ tcPc[p] \in {"returned", "failed"}
    /\ tcPc' = [tcPc EXCEPT ![p] = "done"]
    /\ tcOp' = [tcOp EXCEPT ![p] = NoValue]
    /\ tcResult' = [tcResult EXCEPT ![p] = NoValue]
    /\ tcTrace' = [tcTrace EXCEPT ![p] = <<>>]
    /\ UNCHANGED <<cache, pcaOutput>>
    /\ UNCHANGED <<ratingsCsv, tzOffset, lcLocals, kmVars, upVars, tpVars, drVars,
                       ciVars, imVars>>

TcNext ==
    \E p \in Procs :
        \/ TcCacheHit(p)
        \/ TcCacheMiss(p)
        \/ TcCompute(p)
        \/ TcThrow(p)
        \/ TcStore(p)
        \/ TcFinish(p)

(***************************************************************************)
(* MoviesService.getDimensionalityReduction, called by two concurrent      *)
(* requests                                                                *)
(*                                                                         *)
(* The two temporary files have fixed names, scripts/temp_input.json and   *)
(* scripts/temp_output.json.  A file is held as the sequence of none       *)
(* (absent) or one (its content).  The script is not part of the sources:  *)
(* the python process is taken to read the file named by its second        *)
(* argument, to fail when that file is absent, and to write what it        *)
(* derives from the content read to the file named by its third.           *)
(***************************************************************************)

\* The arguments of the calls: a technique and a range of years; the
\* range stands for the movies the query selects, too.
ReductionArgs ==
    [technique : {"pca", "tsne"}, years : {"1990-1999", "2000-2009"}]

\* What the script derives from the content of its input file.
Reduced(technique, content) == [technique |-> technique, of |-> content]

\* No reduction request in this run.
DrOff ==
    /\ tempInput = <<>>
    /\ tempOutput = <<>>
    /\ drPc = [p \in Procs |-> "off"]
    /\ drArgs = [p \in Procs |-> NoValue]
    /\ pyInput = [p \in Procs |-> <<>>]
    /\ drResult = [p \in Procs |-> <<>>]

DrInit ==
    /\ tempInput = <<>>
    /\ tempOutput = <<>>
    /\ drPc = [p \in Procs |-> "idle"]
    /\ drArgs = [p \in Procs |-> NoValue]
    /\ pyInput = [p \in Procs |-> <<>>]
    /\ drResult = [p \in Procs |-> <<>>]

\* Lines 1135-1159, after the query: the movies written to temp_input.json
\* and the python process spawned.
DrStart(p) ==
    /\ drPc[p] = "idle"
    /\ \E args \in ReductionArgs :
          /\ drArgs' = [drArgs EXCEPT ![p] = args]
          /\ tempInput' = <<args.years>>
    /\ drPc' = [drPc EXCEPT ![p] = "spawned"]
    /\ UNCHANGED <<tempOutput, pyInput, drResult>>
    /\ UNCHANGED <<kmVars, lcVars, upVars, tpVars, tcVars, ciVars, imVars>>

\* The python process of request p opens its input file and reads it.
PyRead(p) ==
    /\ drPc[p] = "spawned"
    /\ tempInput # <<>>
    /\ pyInput' = [pyInput EXCEPT ![p] = tempInput]
    /\ drPc' = [drPc EXCEPT ![p] = "read"]
    /\ UNCHANGED <<tempInput, tempOutput, drArgs, drResult>>
    /\ UNCHANGED <<kmVars, lcVars, upVars, tpVars, tcVars, ciVars, imVars>>

\* The python process of request p finds no input file and exits with a
\* code other than 0.
PyFail(p) ==
    /\ drPc[p] = "spawned"
    /\ tempInput = <<>>
    /\ drPc' = [drPc EXCEPT ![p] = "exited1"]
    /\ UNCHANGED <<tempInput, tempOutput, drArgs, pyInput, drResult>>
    /\ UNCHANGED <<kmVars, lcVars, upVars, tpVars, tcVars, ciVars, imVars>>

\* The python process of request p writes its output file and exits with
\* code 0.
PyWrite(p) ==
    /\ drPc[p] = "read"
    /\ tempOutput' = <<Reduced(drArgs[p].technique, pyInput[p][1])>>
    /\ drPc' = [drPc EXCEPT ![p] = "exited0"]
    /\ UNCHANGED <<tempInput, drArgs, pyInput, drResult>>
    /\ UNCHANGED <<kmVars, lcVars, upVars, tpVars, tcVars, ciVars, imVars>>

\* Lines 1177-1202, pythonProcess.on('close'): temp_input.json removed;
\* then the promise rejected for a code other than 0 or for a missing
\* temp_output.json, and else resolved with the content of
\* temp_output.json, which is removed.
DrClose(p) ==
    /\ drPc[p] \in {"exited0", "exited1"}
    /\ tempInput' = <<>>
    /\ IF drPc[p] = "exited1" \/ tempOutput = <<>>
       THEN /\ drPc' = [drPc EXCEPT ![p] = "rejected"]
            /\ UNCHANGED <<tempOutput, drResult>>
       ELSE /\ drResult' = [drResult EXCEPT ![p] = tempOutput]
            /\ tempOutput' = <<>>
            /\ drPc' = [drPc EXCEPT ![p] = "resolved"]
    /\ UNCHANGED <<drArgs, pyInput>>
    /\ UNCHANGED <<kmVars, lcVars, upVars, tpVars, tcVars, ciVars, imVars>>

DrNext ==
    \E p \in Procs :
        \/ DrStart(p)
        \/ PyRead(p)
        \/ PyFail(p)
        \/ PyWrite(p)
        \/ DrClose(p)

(***************************************************************************)
(* The web client's MovieLensService.getClusterInterpretations             *)
(*                                                                         *)
(* The response of GET stats/user-clusters is a UserCluster[]; of a        *)
(* UserCluster the fields read are cluster and sampleRatings, and of a     *)
(* sample rating the field genres.  A percentage is the fraction           *)
(* <<count * 100, totalMovies>>.                                           *)
(***************************************************************************)

MaxClusteredUsers == 3

\* The sample ratings a user of the response may carry: none, two movies
\* sharing a genre, one movie of six genres, one movie without genres.
SampleChoices ==
    { <<>>,
      << [movieId |-> 101, genres |-> <<"Action", "Comedy">>],
         [movieId |-> 103, genres |-> <<"Comedy">>] >>,
      << [movieId |-> 104,
          genres |-> <<"Drama", "Action", "Horror", "Sci-Fi", "Thriller",
                       "War">>] >>,
      << [movieId |-> 102, genres |-> <<"(no genres listed)">>] >> }

\* The responses: up to MaxClusteredUsers users, each with one of the
\* cluster ids KMeans(5) assigns.
UserClusterResponses ==
    UNION { { [i \in 1..n |-> [userId |-> i, cluster |-> cl[i],
                               sampleRatings |-> sr[i]]] :
                cl \in [1..n -> 0..(TasteK - 1)],
                sr \in [1..n -> SampleChoices] } :
            n \in 0..MaxClusteredUsers }

\* Lines 204-209: genreCounts after the two nested forEach, as its entries
\* in insertion order.
RECURSIVE CountTags(_, _)
CountTags(genreCounts, tags) ==
    IF tags = <<>> THEN genreCounts
    ELSE LET genre == Head(tags)
             at == {i \in 1..Len(genreCounts) : genreCounts[i].name = genre}
         IN  IF at = {}
             THEN CountTags(Append(genreCounts,
                                   [name |-> genre, count |-> 1]),
                            Tail(tags))
             ELSE CountTags([i \in 1..Len(genreCounts) |->
                               IF i \in at
                               THEN [genreCounts[i] EXCEPT
                                        !.count = genreCounts[i].count + 1]
                               ELSE genreCounts[i]],
                            Tail(tags))

\* A sort by ascending percentage.
RECURSIVE SortByPercentageAscending(_)
SortByPercentageAscending(entries) ==
    IF entries = <<>> THEN <<>>
    ELSE LET last == entries[Len(entries)]
             sorted == SortByPercentageAscending(
                           SubSeq(entries, 1, Len(entries) - 1))
             n == Cardinality({i \in 1..Len(sorted) :
                     ~FracLess(last.percentage, sorted[i].percentage)})
         IN  SubSeq(sorted, 1, n) \o <<last>>
                 \o SubSeq(sorted, n + 1, Len(sorted))

\* Line 219, .sort((a, b) => b.percentage - a.percentage): Array.sort is
\* stable, so an entry goes behind every entry of no smaller percentage
\* that came before it.
RECURSIVE SortByPercentage(_)
SortByPercentage(entries) ==
    IF entries = <<>> THEN <<>>
    ELSE LET last == entries[Len(entries)]
             sorted == SortByPercentage(
                           SubSeq(entries, 1, Len(entries) - 1))
             n == Cardinality({i \in 1..Len(sorted) :
                     ~FracLess(sorted[i].percentage, last.percentage)})
         IN  SubSeq(sorted, 1, n) \o <<last>>
                 \o SubSeq(sorted, n + 1, Len(sorted))

\* Lines 198-224.  totalMovies is incremented once per tag.
getTopGenres(ratings) ==
    LET tags == FlatMap([i \in 1..Len(ratings) |-> ratings[i].genres])
        genreCounts == CountTags(<<>>, tags)
        totalMovies == Len(tags)
        entries == [i \in 1..Len(genreCounts) |->
                      [name |-> genreCounts[i].name,
                       percentage |->
                           <<genreCounts[i].count * 100, totalMovies>>]]
        sorted == SortByPercentage(entries)
    IN  SubSeq(sorted, 1, IF Len(sorted) < 5 THEN Len(sorted) ELSE 5)

\* The first of the users of a cluster id only.
ClusterGroupFirstOnly(response, id) ==
    LET all == SelectSeq(response, LAMBDA c : c.cluster = id)
    IN  SubSeq(all, 1, 1)

\* Lines 169-175: clusterGroups[id] after the reduce, the users of the
\* cluster id in the order of the response.
ClusterGroup(response, id) ==
    SelectSeq(response, LAMBDA c : c.cluster = id)

\* Lines 165-194.  The keys of clusterGroups are the cluster ids as
\* strings; Object.entries lists integer keys in ascending order.
getClusterInterpretations(response) ==
    LET ids == {response[i].cluster : i \in 1..Len(response)}
        clusterId(n) ==
            LET id == CHOOSE i \in ids :
                         Cardinality({j \in ids : j < i}) = n - 1
            IN  CHOOSE c \in Digits : DigitValue(c) = id
    IN  [n \in 1..Cardinality(ids) |->
           LET clusterData == ClusterGroup(response, DigitValue(clusterId(n)))
           IN  [id |-> DigitValue(clusterId(n)),
                size |-> Len(clusterData),
                description |-> <<"Cluster ", clusterId(n)>>,
                topGenres |->
                    getTopGenres(FlatMap([i \in 1..Len(clusterData) |->
                                            clusterData[i].sampleRatings]))]]

\* No interpretation requested in this run.
CiOff ==
    /\ userClusters = <<>>
    /\ ciPc = "off"
    /\ interpretations = <<>>

CiInit ==
    /\ userClusters \in UserClusterResponses
    /\ ciPc = "idle"
    /\ interpretations = <<>>

\* The map of the pipe, lines 164-195, on the response.
GetClusterInterpretations ==
    /\ ciPc = "idle"
    /\ interpretations' = getClusterInterpretations(userClusters)
    /\ ciPc' = "done"
    /\ UNCHANGED userClusters
    /\ UNCHANGED <<kmVars, lcVars, upVars, tpVars, tcVars, drVars, imVars>>

CiNext == GetClusterInterpretations

(***************************************************************************)
(* importMovies, with a request of getMovieStats or getMovies              *)
(*                                                                         *)
(* The table of MovieLensMovie has movieId for primary key: it is held as  *)
(* the sequence of its rows by ascending movieId.  Every await is a step.  *)
(* One import runs, beside requests that follow one another.               *)
(***************************************************************************)

\* The table before the import: one movie, or two.
InitialTables == {<<MoviesCsv[4]>>, <<MoviesCsv[1], MoviesCsv[4]>>}

\* The rows of the file imported: a new movie without genres, or two
\* movies, the first of which a table may hold already.
ImportFiles == {<<MoviesCsv[2]>>, <<MoviesCsv[1], MoviesCsv[3]>>}

\* The cache keys of getMovieStats and getMovies, which name the
\* operation too.
ReadOps == {"movie_stats", "all_movies"}

\* movieLensRepository.save(movies): a row per movieId, the row of the
\* file where the file has one.
SaveMovies(table, movies) ==
    LET Ids(rows) == {rows[j].movieId : j \in 1..Len(rows)}
        ids == Ids(table) \cup Ids(movies)
        Row(id) == IF id \in Ids(movies)
                   THEN movies[CHOOSE j \in 1..Len(movies) :
                                  /\ movies[j].movieId = id
                                  /\ \A i \in (j + 1)..Len(movies) :
                                        movies[i].movieId # id]
                   ELSE table[CHOOSE j \in 1..Len(table) :
                                  table[j].movieId = id]
    IN  [n \in 1..Cardinality(ids) |->
            Row(CHOOSE id \in ids : Cardinality({i \in ids : i < id}) = n - 1)]

\* cacheManager.del(key)
CacheDel(c, key) == [x \in DOMAIN c \ {key} |-> c[x]]

\* No import and no such request in this run.
ImOff ==
    /\ movieTable = <<>>
    /\ imPc = "off"
    /\ rqPc = "off"
    /\ rqOp = NoValue
    /\ rqTotal = 0
    /\ rqResult = NoValue
    /\ rqBegun = NoValue

ImInit ==
    /\ movieTable \in InitialTables
    /\ imPc = "idle"
    /\ rqPc = "idle"
    /\ rqOp = NoValue
    /\ rqTotal = 0
    /\ rqResult = NoValue
    /\ rqBegun = NoValue
    /\ ratingsCsv = <<>>
    /\ tzOffset = 0
    /\ cache = <<>>
    /\ LcLocalsOff

\* Lines 88-107: the file read, then await movieLensRepository.save(movies).
ImSave ==
    /\ imPc = "idle"
    /\ \E movies \in ImportFiles : movieTable' = SaveMovies(movieTable, movies)
    /\ imPc' = "saved"
    /\ UNCHANGED <<rqPc, rqOp, rqTotal, rqResult, rqBegun>>
    /\ UNCHANGED <<lcVars, notIm>>

\* Line 108: await this.cacheManager.del('movie_stats').
ImDelStats ==
    /\ imPc = "saved"
    /\ cache' = CacheDel(cache, <<"movie_stats">>)
    /\ imPc' = "deleted"
    /\ UNCHANGED <<movieTable, rqPc, rqOp, rqTotal, rqResult, rqBegun>>
    /\ UNCHANGED <<ratingsCsv, tzOffset, lcLocals, notIm>>

\* Lines 109-110: await this.cacheManager.del('genre_evolution'), resolve().
ImDelEvolution ==
    /\ imPc = "deleted"
    /\ cache' = CacheDel(cache, <<"genre_evolution">>)
    /\ imPc' = "resolved"
    /\ UNCHANGED <<movieTable, rqPc, rqOp, rqTotal, rqResult, rqBegun>>
    /\ UNCHANGED <<ratingsCsv, tzOffset, lcLocals, notIm>>

\* Lines 126-133 and 662-667: the call, the cache lookup, a hit returned.
RqCacheHit ==
    /\ rqPc = "idle"
    /\ \E op \in ReadOps :
          /\ <<op>> \in DOMAIN cache
          /\ rqOp' = op
          /\ rqResult' = cache[<<op>>].value
    /\ rqBegun' = imPc
    /\ rqPc' = "returned"
    /\ UNCHANGED <<movieTable, imPc, rqTotal>>
    /\ UNCHANGED <<lcVars, notIm>>

\* Lines 126-129 and 662-664: the call and the cache lookup, which misses.
RqCacheMiss ==
    /\ rqPc = "idle"
    /\ \E op \in ReadOps :
          /\ <<op>> \notin DOMAIN cache
          /\ rqOp' = op
    /\ rqBegun' = imPc
    /\ rqPc' = "miss"
    /\ UNCHANGED <<movieTable, imPc, rqTotal, rqResult>>
    /\ UNCHANGED <<lcVars, notIm>>

\* Line 136: await this.movieLensRepository.count().
RqCount ==
    /\ rqPc = "miss"
    /\ rqOp = "movie_stats"
    /\ rqTotal' = Len(movieTable)
    /\ rqPc' = "counted"
    /\ UNCHANGED <<movieTable, imPc, rqOp, rqResult, rqBegun>>
    /\ UNCHANGED <<lcVars, notIm>>

\* Lines 137-158: the rows queried and stats built from them and from
\* totalMovies.
RqStats ==
    /\ rqPc = "counted"
    /\ rqResult' = MovieStats(rqTotal, movieTable)
    /\ rqPc' = "computed"
    /\ UNCHANGED <<movieTable, imPc, rqOp, rqTotal, rqBegun>>
    /\ UNCHANGED <<lcVars, notIm>>

\* Line 669: await this.movieLensRepository.find().
RqFind ==
    /\ rqPc = "miss"
    /\ rqOp = "all_movies"
    /\ rqResult' = movieTable
    /\ rqPc' = "computed"
    /\ UNCHANGED <<movieTable, imPc, rqOp, rqTotal, rqBegun>>
    /\ UNCHANGED <<lcVars, notIm>>

\* Lines 161-162 and 671-672: the result stored, then returned.
RqStore ==
    /\ rqPc = "computed"
    /\ cache' = CacheSet(cache, <<rqOp>>, rqResult, CacheTtl)
    /\ rqPc' = "returned"
    /\ UNCHANGED <<movieTable, imPc, rqOp, rqTotal, rqResult, rqBegun>>
    /\ UNCHANGED <<ratingsCsv, tzOffset, lcLocals, notIm>>

\* The caller has the result; the service awaits the next call.
RqFinish ==
    /\ rqPc = "returned"
    /\ rqPc' = "idle"
    /\ rqOp' = NoValue
    /\ rqTotal' = 0
    /\ rqResult' = NoValue
    /\ rqBegun' = NoValue
    /\ UNCHANGED <<movieTable, imPc>>
    /\ UNCHANGED <<lcVars, notIm>>

ImNext ==
    \/ ImSave \/ ImDelStats \/ ImDelEvolution
    \/ RqCacheHit \/ RqCacheMiss \/ RqCount \/ RqStats \/ RqFind
    \/ RqStore \/ RqFinish

(***************************************************************************)
(* The specifications: one per operation, the others switched off.         *)
(***************************************************************************)
PreferencesInit == UpInit /\ KmOff /\ LcOff /\ TpOff /\ TcOff /\ DrOff
    /\ CiOff /\ ImOff

SpecPreferences == PreferencesInit /\ [][UpNext]_vars

LifecycleInit == LcInit /\ KmOff /\ UpOff /\ TpOff /\ TcOff /\ DrOff
    /\ CiOff /\ ImOff

SpecLifecycle == LifecycleInit /\ [][LcNext]_vars

KMeansInit == KmInit /\ LcOff /\ UpOff /\ TpOff /\ TcOff /\ DrOff
    /\ CiOff /\ ImOff

SpecKMeans == KMeansInit /\ [][KmNext]_vars

\* fit is one synchronous call: a body of the do-while that can run, runs.
SpecKMeansFair == SpecKMeans /\ WF_vars(KmNext)

TemporalInit == TpInit /\ KmOff /\ UpOff /\ TcOff /\ DrOff
    /\ CiOff /\ ImOff

SpecTemporal == TemporalInit /\ [][TpNext]_vars

TasteInit == TcInit /\ KmOff /\ TpOff /\ DrOff
    /\ CiOff /\ ImOff

SpecTaste == TasteInit /\ [][TcNext]_vars

ReductionInit == DrInit /\ KmOff /\ LcOff /\ UpOff /\ TpOff /\ TcOff
    /\ CiOff /\ ImOff

SpecReduction == ReductionInit /\ [][DrNext]_vars

\* getUserPreferences on a ratings.csv that may hold malformed rows.
MalformedInit ==
    /\ userRatingsCsv
          \in UNION {[1..n -> MalformedRows] : n \in 0..MaxUserRatings}
    /\ upPc = "idle"
    /\ userPreferences = <<>>
    /\ pcaMatrix = <<>>
    /\ pcaEmbeddings = <<>>
    /\ KmOff /\ LcOff /\ TpOff /\ TcOff /\ DrOff /\ CiOff /\ ImOff

SpecMalformed == MalformedInit /\ [][UpNext]_vars

\* getUserPreferences on up to MaxSampleRows rows.
SamplesInit ==
    /\ userRatingsCsv \in UNION {[1..n -> SampleRows] : n \in 0..MaxSampleRows}
    /\ upPc = "idle"
    /\ userPreferences = <<>>
    /\ pcaMatrix = <<>>
    /\ pcaEmbeddings = <<>>
    /\ KmOff /\ LcOff /\ TpOff /\ TcOff /\ DrOff /\ CiOff /\ ImOff

SpecSamples == SamplesInit /\ [][UpNext]_vars

InterpretInit == CiInit /\ KmOff /\ LcOff /\ UpOff /\ TpOff /\ TcOff /\ DrOff
    /\ ImOff

SpecInterpret == InterpretInit /\ [][CiNext]_vars

ImportInit == ImInit /\ KmOff /\ UpOff /\ TpOff /\ TcOff /\ DrOff /\ CiOff

SpecImport == ImportInit /\ [][ImNext]_vars

(***************************************************************************)
(* The fixed input of three tight, far-apart clumps, clustered with k = 3. *)
(***************************************************************************)
ClumpData ==
    << <<0, 0>>, <<1, 0>>, <<40, 0>>, <<41, 0>>, <<0, 40>>, <<1, 40>> >>

\* The clump of the i-th point of ClumpData.
ClumpOf(i) == (i - 1) \div 2

ClumpInit == KmInitOver({ClumpData}, {3}) /\ LcOff /\ UpOff /\ TpOff /\ TcOff /\ DrOff
    /\ CiOff /\ ImOff

SpecClumps == ClumpInit /\ [][KmNext]_vars

\* Two points share a label exactly when they belong to the same clump.
ClumpPartition ==
    \A i, j \in 1..Len(data) :
        (clusters[i] = clusters[j]) <=> (ClumpOf(i) = ClumpOf(j))

\* The clumps the initial centroids were picked from.
SeedClumps == {ClumpOf(seeds[i]) : i \in DOMAIN seeds}

(***************************************************************************)
(* C1.  For every non-empty input, every k >= 1 (also k greater than the   *)
(* number of points) and every choice of initial centroids, the labels fit *)
(* computes are as many as the points and each is an integer in 0..k-1;    *)
(* for k = 1 every label is 0.  This holds of every assignment the loop    *)
(* computes, so of the one fit returns.                                    *)
(***************************************************************************)
C1_LabelsInRange ==
    kmPc \in {"loop", "done"} /\ iterations >= 1 =>
        /\ Len(clusters) = Len(data)
        /\ \A i \in 1..Len(clusters) : clusters[i] \in 0..(k - 1)
        /\ (k = 1 => \A i \in 1..Len(clusters) : clusters[i] = 0)

\* fit has returned for k greater than the number of points, with two
\* different labels in use.
C1_Witness ==
    /\ kmPc = "done"
    /\ k > Len(data)
    /\ \E i, j \in 1..Len(clusters) : clusters[i] # clusters[j]

\* fit has returned for k = 1 on several points.
C1_WitnessK1 == kmPc = "done" /\ k = 1 /\ Len(data) >= 2

(***************************************************************************)
(* C3.  As claimed: on the three clumps with k = 3, whatever the initial   *)
(* centroids, the assignment fit returns is the partition into clumps.     *)
(***************************************************************************)
C3_AnySeedsGiveClumps == kmPc = "done" => ClumpPartition

(***************************************************************************)
(* C3, amended.  On the three clumps with k = 3, when the three initial    *)
(* centroids were picked from three different clumps, the assignment fit   *)
(* returns is the partition into clumps.                                   *)
(***************************************************************************)
C3_SpreadSeedsGiveClumps ==
    kmPc = "done" /\ Cardinality(SeedClumps) = 3 => ClumpPartition

\* fit has returned from initial centroids in three different clumps.
C3_Witness ==
    kmPc = "done" /\ Cardinality(SeedClumps) = 3 /\ ClumpPartition

(***************************************************************************)
(* Claims about getMovieRatingLifecycle, stated on the result the call     *)
(* built or fetched and on the rows of ratings.csv.                        *)
(***************************************************************************)
ThirtyDays == 2592000

LcHasResult == lcPc \in {"computed", "returned"}

\* The rows of ratings.csv of the requested movie with lo <= timestamp < hi.
RowsIn(lo, hi) ==
    {j \in 1..Len(ratingsCsv) :
        /\ ratingsCsv[j].movieId = lcMovieId
        /\ ratingsCsv[j].timestamp >= lo
        /\ ratingsCsv[j].timestamp < hi}

\* The sum of the ratings of the rows js of ratings.csv.
RatingSum(js) ==
    SumSeq([j \in 1..Len(ratingsCsv) |->
               IF j \in js THEN ratingsCsv[j].rating ELSE 0])

\* The rows of the requested movie rated at or after time lo.
RowsFrom(lo) ==
    {j \in 1..Len(ratingsCsv) :
        ratingsCsv[j].movieId = lcMovieId /\ ratingsCsv[j].timestamp >= lo}

\* The anchor of the call: Jan 1 00:00 local time of the release year.
LcAnchor == ReleaseTimestamp(lcResult.movie.releaseYear, tzOffset)

(***************************************************************************)
(* C4.  In every timeSegments sequence returned: each segment ends         *)
(* 2,592,000 s after its start and not after the start of the next one,    *)
(* start times strictly increase, ratingCount is at least 1 and is the     *)
(* number of the movie's ratings with startTime <= timestamp < endTime,    *)
(* and averageRating is the mean of exactly those ratings.                 *)
(***************************************************************************)
C4_SegmentsSound ==
    LcHasResult =>
        LET ts == lcResult.timeSegments
        IN  \A i \in 1..Len(ts) :
                LET rows == RowsIn(ts[i].startTime, ts[i].endTime)
                IN  /\ ts[i].endTime = ts[i].startTime + ThirtyDays
                    /\ i < Len(ts) =>
                          /\ ts[i].startTime < ts[i + 1].startTime
                          /\ ts[i].endTime <= ts[i + 1].startTime
                    /\ ts[i].ratingCount >= 1
                    /\ ts[i].ratingCount = Cardinality(rows)
                    /\ ts[i].averageRating[2] > 0
                    /\ ts[i].averageRating[1] * Cardinality(rows)
                          = RatingSum(rows) * ts[i].averageRating[2]

\* A result with two segments, one of them averaging two different ratings.
C4_Witness ==
    /\ LcHasResult
    /\ Len(lcResult.timeSegments) >= 2
    /\ \E i \in 1..Len(lcResult.timeSegments) :
          /\ lcResult.timeSegments[i].ratingCount = 2
          /\ lcResult.timeSegments[i].averageRating[1] = 13

(***************************************************************************)
(* C5.  As claimed: every rating of the movie at or after the anchor is    *)
(* counted in exactly one returned segment, so the ratingCounts sum to the *)
(* number of such ratings, wherever the latest rating lies.                *)
(***************************************************************************)
C5_EveryRatingCounted ==
    LcHasResult =>
        LET ts == lcResult.timeSegments
        IN  /\ SumSeq([i \in 1..Len(ts) |-> ts[i].ratingCount])
                  = Cardinality(RowsFrom(LcAnchor))
            /\ \A j \in RowsFrom(LcAnchor) :
                  Cardinality({i \in 1..Len(ts) :
                      /\ ts[i].startTime <= ratingsCsv[j].timestamp
                      /\ ratingsCsv[j].timestamp < ts[i].endTime}) = 1

(***************************************************************************)
(* C6.  As claimed: a non-empty timeSegments sequence starts at Jan 1      *)
(* 00:00 UTC of the movie's release year.                                  *)
(***************************************************************************)
C6_FirstSegmentAtUtcJan1 ==
    LcHasResult /\ lcResult.timeSegments # <<>> =>
        lcResult.timeSegments[1].startTime
            = UtcJan1(lcResult.movie.releaseYear)

(***************************************************************************)
(* C6, amended.  A non-empty timeSegments sequence starts a whole number   *)
(* (>= 0) of 2,592,000 s windows after Jan 1 00:00, server local time, of  *)
(* the release year: at the earliest window that holds a rating of the     *)
(* movie, so at the anchor itself exactly when a rating falls in the first *)
(* window.                                                                 *)
(***************************************************************************)
C6_FirstSegmentOnLocalGrid ==
    LcHasResult /\ lcResult.timeSegments # <<>> =>
        LET first == lcResult.timeSegments[1].startTime
            anchor == UtcJan1(lcResult.movie.releaseYear) - tzOffset
        IN  /\ first >= anchor
            /\ (first - anchor) % ThirtyDays = 0
            /\ RowsIn(anchor, first) = {}
            /\ RowsIn(first, first + ThirtyDays) # {}
            /\ (first = anchor) <=> (RowsIn(anchor, anchor + ThirtyDays) # {})

\* The claim as made, for a server running in UTC.
C6_FirstSegmentAtUtcJan1InUtc ==
    tzOffset = 0 => C6_FirstSegmentAtUtcJan1

\* A sequence that starts after the anchor, on a server not running in UTC.
C6_Witness ==
    /\ LcHasResult
    /\ lcResult.timeSegments # <<>>
    /\ tzOffset # 0
    /\ lcResult.timeSegments[1].startTime
          > UtcJan1(lcResult.movie.releaseYear) - tzOffset

(***************************************************************************)
(* C7.  As claimed: when the requested movie is listed with a four-digit   *)
(* year in its title and has no rating, the call does not fail and returns *)
(* an empty ratings sequence and an empty timeSegments sequence.           *)
(***************************************************************************)
C7_NoRatingsNoFailure ==
    /\ lcPc \in {"computed", "returned", "failed"}
    /\ Len(ReadMovies(lcMovieId)) > 0
    /\ YearMatchPositions(MoviesCsv[lcMovieId].title) # {}
    /\ RowsFrom(0) = {}
    => /\ lcPc # "failed"
       /\ lcResult.ratings = <<>>
       /\ lcResult.timeSegments = <<>>

\* The part of C7 that holds: the same for every year but 0000.
C7_NonZeroYearNoFailure ==
    /\ lcPc \in {"computed", "returned", "failed"}
    /\ Len(ReadMovies(lcMovieId)) > 0
    /\ YearMatchPositions(MoviesCsv[lcMovieId].title) # {}
    /\ ParseReleaseYear(MoviesCsv[lcMovieId].title) # 0
    /\ RowsFrom(0) = {}
    => /\ lcPc # "failed"
       /\ lcResult.ratings = <<>>
       /\ lcResult.timeSegments = <<>>

(***************************************************************************)
(* C8.  As claimed: the call fails when no row of movies.csv has the       *)
(* movieId or when the title holds no four-digit year, and the error that  *)
(* reaches the caller is typed: NotFound for the missing movie,            *)
(* Unprocessable for the missing year.                                     *)
(***************************************************************************)
C8_TypedFailures ==
    LET answered == lcPc \in {"computed", "returned", "failed"}
        listed == lcMovieId \in 1..Len(MoviesCsv)
    IN  /\ (answered /\ ~listed)
              => (lcPc = "failed" /\ lcError.class = "NotFound")
        /\ (answered /\ listed
                /\ YearMatchPositions(MoviesCsv[lcMovieId].title) = {})
              => (lcPc = "failed" /\ lcError.class = "Unprocessable")

\* The part of C8 that holds: the call fails, with the one generic Error,
\* exactly when no row has the movieId or the release year is null or 0.
C8_FailsWhenUnusable ==
    lcPc \in {"computed", "returned", "failed"} =>
        /\ (lcPc = "failed") <=> MovieUnusable(ReadMovies(lcMovieId))
        /\ lcPc = "failed" => lcError.class = "Error"

(***************************************************************************)
(* Claims about getUserPreferences, stated on the array returned and on    *)
(* the rows of ratings.csv and movies.csv.                                 *)
(***************************************************************************)

\* The user has a rating whose movie is listed with a genre other than the
\* sentinel.
GenreBearingUser(userId) ==
    \E j \in 1..Len(userRatingsCsv), m \in 1..Len(MoviesCsv) :
        /\ userRatingsCsv[j].userId = userId
        /\ MoviesCsv[m].movieId = userRatingsCsv[j].movieId
        /\ \E g \in 1..Len(MoviesCsv[m].genres) :
              MoviesCsv[m].genres[g] # "(no genres listed)"

\* The sum of the fractions of a sequence.
RECURSIVE FracSum(_)
FracSum(fs) ==
    IF fs = <<>> THEN <<0, 1>>
    ELSE LET rest == FracSum(Tail(fs))
         IN  <<Head(fs)[1] * rest[2] + rest[1] * Head(fs)[2],
               Head(fs)[2] * rest[2]>>

(***************************************************************************)
(* C9.  For every vector returned for a user with at least one             *)
(* genre-bearing rating, every genrePreferences value lies in [0, 1] and   *)
(* the values sum to 1.                                                    *)
(***************************************************************************)
C9_PreferencesSumToOne ==
    upPc = "done" =>
        \A i \in 1..Len(userPreferences) :
            GenreBearingUser(userPreferences[i].userId) =>
                LET prefs == userPreferences[i].genrePreferences
                    values == [j \in 1..Len(prefs) |-> prefs[j].value]
                IN  /\ prefs # <<>>
                    /\ \A j \in 1..Len(values) :
                          /\ values[j][2] > 0
                          /\ values[j][1] >= 0
                          /\ values[j][1] <= values[j][2]
                    /\ FracEq(FracSum(values), <<1, 1>>)

\* A vector over two genres with different preferences.
C9_Witness ==
    /\ upPc = "done"
    /\ \E i \in 1..Len(userPreferences) :
          LET prefs == userPreferences[i].genrePreferences
          IN  /\ Len(prefs) = 2
              /\ ~FracEq(prefs[1].value, prefs[2].value)

(***************************************************************************)
(* C10.  As claimed: a vector is returned for a user id exactly when that  *)
(* user has at least one rating whose movie has a non-sentinel genre, so   *)
(* no returned vector has an empty genrePreferences map.                   *)
(***************************************************************************)
C10_OnlyGenreBearingUsers ==
    upPc = "done" =>
        /\ \A u \in UserIds :
              (\E i \in 1..Len(userPreferences) : userPreferences[i].userId = u)
                  <=> GenreBearingUser(u)
        /\ \A i \in 1..Len(userPreferences) :
              userPreferences[i].genrePreferences # <<>>

\* What the code returns instead: one vector for every user id of
\* ratings.csv, in order of first row, with an empty genrePreferences map
\* exactly for the users without a genre-bearing rating.
C10_EveryRatingUserReturned ==
    upPc = "done" =>
        /\ \A u \in UserIds :
              Cardinality({i \in 1..Len(userPreferences) :
                              userPreferences[i].userId = u})
                  = IF \E j \in 1..Len(userRatingsCsv) : userRatingsCsv[j].userId = u
                    THEN 1 ELSE 0
        /\ \A i \in 1..Len(userPreferences) :
              (userPreferences[i].genrePreferences = <<>>)
                  <=> ~GenreBearingUser(userPreferences[i].userId)

\* The movie of the id has "(no genres listed)" for its only genre.
SentinelOnly(movieId) ==
    LET found == MovieLookup(movieId)
    IN  IF found = <<>> THEN FALSE
        ELSE found[1].genres = <<"(no genres listed)">>

\* The rows of ratings.csv without the ratings of sentinel-only movies.
GenreBearingRows(rows) ==
    LET Counts(rec) == ~SentinelOnly(rec.movieId)
    IN  SelectSeq(rows, Counts)

(***************************************************************************)
(* C11.  As claimed, for the genre filter: whatever genre a call of        *)
(* getTemporalRatingPatterns names, no rating of a movie whose only genre  *)
(* is "(no genres listed)" is counted, so the grid is the one the ratings  *)
(* of the other movies give.                                               *)
(***************************************************************************)
C11_SentinelNeverCounted ==
    (tpPc \in {"computed", "returned"} /\ tpGenre # NoGenre) =>
        tpResult = TemporalPatterns(GenreBearingRows(ratingsCsv), tpGenre,
                                    tzOffset)

\* The same for the genres other than the sentinel, where it holds.
C11_SentinelNotCountedForRealGenres ==
    (tpPc \in {"computed", "returned"}
        /\ tpGenre \notin {NoGenre, "(no genres listed)"}) =>
        tpResult = TemporalPatterns(GenreBearingRows(ratingsCsv), tpGenre,
                                    tzOffset)

\* The sentinel is no key of the genre distribution of getMovieStats.
C11_DistributionHasNoSentinel ==
    LET dist == GenreDistribution(MoviesCsv)
    IN  \A j \in 1..Len(dist) : dist[j].genre # "(no genres listed)"

\* The sentinel is no key of any genrePreferences map.
C11_PreferencesHaveNoSentinel ==
    upPc = "done" =>
        \A i \in 1..Len(userPreferences) :
            \A j \in 1..Len(userPreferences[i].genrePreferences) :
                userPreferences[i].genrePreferences[j].genre
                    # "(no genres listed)"

(***************************************************************************)
(* C12.  getMovieRatingLifecycle is cache-aside.  A call that missed has   *)
(* looked the key up before anything else and found it absent; it then     *)
(* reads the dataset, and it writes the cache only after that.  A call     *)
(* that returns has either made the lookup and nothing else (a hit: the    *)
(* value returned is the one held under the key, the dataset was not read  *)
(* and the cache not written), or made the lookup, the read and one write  *)
(* (a miss: the value returned is the one computed from the dataset, and   *)
(* it is the value now held under the key, with the time to live).         *)
(***************************************************************************)
C12_CacheAside ==
    LET key == LifecycleKey(lcMovieId)
    IN  /\ lcPc = "miss" => (lcTrace = <<"get">> /\ key \notin DOMAIN cache)
        /\ lcPc = "computed" =>
              (lcTrace = <<"get", "read">> /\ key \notin DOMAIN cache)
        /\ lcPc = "returned" =>
              /\ key \in DOMAIN cache
              /\ cache[key] = [value |-> lcResult, ttl |-> CacheTtl]
              /\ \/ lcTrace = <<"get">>
                 \/ /\ lcTrace = <<"get", "read", "set">>
                    /\ lcResult =
                          LifecycleResult(ReadMovies(lcMovieId),
                                          ReadRatings(ratingsCsv, lcMovieId),
                                          tzOffset)

\* A hit: a call returns having made the lookup only, for a movie with a
\* segment to show.
C12_Witness ==
    /\ lcPc = "returned"
    /\ lcTrace = <<"get">>
    /\ lcResult.timeSegments # <<>>

\* The same of the two clustering operations, step by step and for each of
\* two concurrent requests: a hit returns the value held and leaves the
\* cache alone, a miss stores the results it built, with the time to live,
\* and returns them.
C12_TasteCacheAside ==
    [][\A p \in Procs :
          /\ (tcPc[p] = "idle" /\ tcPc'[p] = "returned") =>
                /\ <<tcOp'[p]>> \in DOMAIN cache
                /\ tcResult'[p] = cache[<<tcOp'[p]>>].value
                /\ cache' = cache
                /\ tcTrace'[p] = <<"get">>
          /\ (tcPc[p] = "idle" /\ tcPc'[p] = "miss") =>
                (<<tcOp'[p]>> \notin DOMAIN cache /\ cache' = cache)
          /\ (tcPc[p] = "miss" /\ tcPc'[p] = "computed") => cache' = cache
          /\ (tcPc[p] = "computed" /\ tcPc'[p] = "returned") =>
                /\ tcResult'[p] = tcResult[p]
                /\ cache'[<<tcOp[p]>>]
                      = [value |-> tcResult[p], ttl |-> CacheTtl]
                /\ tcTrace'[p] = <<"get", "read", "set">>]_vars

\* Request p has built its results itself: it missed, read and computed.
TasteComputed(p) == tcPc[p] \in {"computed", "returned"} /\ Len(tcTrace[p]) >= 2

(***************************************************************************)
(* C13.  As claimed, for the key user_taste_clusters: when two concurrent  *)
(* requests both miss and both compute, the two values computed are equal, *)
(* and once both have written and returned, the value left in the cache is *)
(* the value each of them returned.                                        *)
(***************************************************************************)
C13_ConcurrentMissesAgree ==
    (\A p \in Procs : tcOp[p] = "user_taste_clusters" /\ TasteComputed(p)) =>
        /\ tcResult[1] = tcResult[2]
        /\ (\A p \in Procs : tcPc[p] = "returned") =>
              \A p \in Procs :
                  cache[<<"user_taste_clusters">>].value = tcResult[p]

\* What does hold of two such requests, for either key: the two values
\* agree in everything but the cluster labels.
C13_ConcurrentMissesAgreeButLabels ==
    (tcOp[1] = tcOp[2] /\ \A p \in Procs : TasteComputed(p)) =>
        /\ Len(tcResult[1]) = Len(tcResult[2])
        /\ \A i \in 1..Len(tcResult[1]) :
              [tcResult[1][i] EXCEPT !.cluster = 0]
                  = [tcResult[2][i] EXCEPT !.cluster = 0]

(***************************************************************************)
(* C14.  As claimed, for getDimensionalityReduction: whatever other        *)
(* request is interleaved with it, the value a request resolves with is    *)
(* the one derived from its own arguments.                                 *)
(***************************************************************************)
C14_ResultFromOwnInput ==
    \A p \in Procs :
        drPc[p] = "resolved" =>
            drResult[p] = <<Reduced(drArgs[p].technique, drArgs[p].years)>>

\* The same of a request that runs while no other has started, where it
\* holds, and such a request is never rejected.
C14_AloneResultFromOwnInput ==
    \A p, q \in Procs :
        (p # q /\ drPc[q] = "idle") =>
            /\ drPc[p] # "rejected"
            /\ drPc[p] = "resolved" =>
                  drResult[p]
                      = <<Reduced(drArgs[p].technique, drArgs[p].years)>>

\* The points of the users of ratings.csv, as operation op projects them.
TastePoints(op) ==
    LET prefs == BuildUserPreferences(userRatingsCsv)
    IN  IF op = "user_taste_clusters"
        THEN [i \in 1..Len(prefs) |-> TrigPoint(prefs[i])]
        ELSE pcaOutput

(***************************************************************************)
(* C15.  The results a request of either clustering operation has built    *)
(* have one entry per vector of getUserPreferences, the i-th entry with    *)
(* the userId and the sampleRatings of the i-th vector, the coordinates of *)
(* the point projected from the i-th vector (for the PCA variant, the i-th *)
(* row the library returned), and for its cluster the i-th label of a fit  *)
(* of those points.                                                        *)
(***************************************************************************)
C15_IndexAligned ==
    \A p \in Procs :
        TasteComputed(p) =>
            LET prefs == BuildUserPreferences(userRatingsCsv)
                points == TastePoints(tcOp[p])
                res == tcResult[p]
            IN  /\ Len(res) = Len(prefs)
                /\ \A i \in 1..Len(res) :
                      /\ res[i].userId = prefs[i].userId
                      /\ res[i].sampleRatings = prefs[i].sampleRatings
                      /\ res[i].x = <<points[i].x, points[i].den>>
                      /\ res[i].y = <<points[i].y, points[i].den>>
                /\ [i \in 1..Len(res) |-> res[i].cluster]
                      \in FitOutcomes[FitInput(points)]

\* Results for three users at two different points, the first two users in
\* one cluster and the third in another.
C15_Witness ==
    \E p \in Procs :
        /\ TasteComputed(p)
        /\ tcOp[p] = "user_taste_clusters"
        /\ Len(tcResult[p]) = 3
        /\ tcResult[p][1].cluster = tcResult[p][2].cluster
        /\ tcResult[p][3].cluster # tcResult[p][1].cluster
        /\ tcResult[p][3].x # tcResult[p][1].x


(***************************************************************************)
(* C16.  getClusterInterpretations gives exactly one interpretation for    *)
(* each distinct cluster id of the response and none for an id no user     *)
(* has; its size is the number of users with that id, its description is   *)
(* "Cluster " followed by the id, and the sizes add up to the number of    *)
(* users of the response.                                                  *)
(***************************************************************************)
C16_OneInterpretationPerCluster ==
    ciPc = "done" =>
        LET users == 1..Len(userClusters)
            ids == {userClusters[i].cluster : i \in users}
            at(id) == {j \in 1..Len(interpretations) :
                          interpretations[j].id = id}
        IN  /\ Len(interpretations) = Cardinality(ids)
            /\ \A j \in 1..Len(interpretations) :
                  interpretations[j].id \in ids
            /\ \A id \in ids :
                  /\ Cardinality(at(id)) = 1
                  /\ \A j \in at(id) :
                        /\ interpretations[j].size =
                              Cardinality({i \in users :
                                  userClusters[i].cluster = id})
                        /\ interpretations[j].description =
                              <<"Cluster ",
                                CHOOSE c \in Digits : DigitValue(c) = id>>
            /\ FracSum([j \in 1..Len(interpretations) |->
                          <<interpretations[j].size, 1>>])
                   = <<Len(userClusters), 1>>

\* Three users in two clusters have been interpreted.
C16_Witness ==
    /\ ciPc = "done"
    /\ Len(userClusters) = 3
    /\ Len(interpretations) = 2
    /\ \E j \in 1..2 : interpretations[j].size = 2

(***************************************************************************)
(* C17.  The topGenres of an interpretation are at most 5 entries in       *)
(* descending order of percentage; the percentage of a genre is its        *)
(* occurrences among the tags pooled from the sample ratings of the        *)
(* cluster's users, over the number of pooled tags, times 100; no genre    *)
(* left out occurs more often than a listed one; the listed percentages    *)
(* add up to at most 100; an empty pool gives an empty list.               *)
(***************************************************************************)
C17_TopGenres ==
    ciPc = "done" =>
        \A j \in 1..Len(interpretations) :
            LET top == interpretations[j].topGenres
                pool == {<<i, r, t>> \in (1..Len(userClusters))
                                \X (1..2) \X (1..6) :
                           /\ userClusters[i].cluster = interpretations[j].id
                           /\ r <= Len(userClusters[i].sampleRatings)
                           /\ t <= Len(userClusters[i].sampleRatings[r].genres)}
                tag(o) == userClusters[o[1]].sampleRatings[o[2]].genres[o[3]]
                occurrences(g) == Cardinality({o \in pool : tag(o) = g})
                pooled == {tag(o) : o \in pool}
                listed == {top[a].name : a \in 1..Len(top)}
            IN  /\ Len(top) <= 5
                /\ Len(top) = IF Cardinality(pooled) < 5
                              THEN Cardinality(pooled) ELSE 5
                /\ Cardinality(listed) = Len(top)
                /\ listed \subseteq pooled
                /\ \A a, b \in 1..Len(top) :
                      a < b => ~FracLess(top[a].percentage, top[b].percentage)
                /\ \A a \in 1..Len(top) :
                      FracEq(top[a].percentage,
                             <<occurrences(top[a].name) * 100,
                               Cardinality(pool)>>)
                /\ \A g \in listed, h \in pooled \ listed :
                      occurrences(g) >= occurrences(h)
                /\ ~FracLess(<<100, 1>>,
                             FracSum([a \in 1..Len(top) |->
                                        top[a].percentage]))
                /\ (pool = {} => top = <<>>)

\* A cluster whose pool holds more than 5 genres of unequal frequency has
\* been interpreted.
C17_Witness ==
    /\ ciPc = "done"
    /\ \E j \in 1..Len(interpretations) :
          LET top == interpretations[j].topGenres
          IN  /\ Len(top) = 5
              /\ FracLess(top[5].percentage, top[1].percentage)
              /\ FracLess(FracSum([a \in 1..5 |-> top[a].percentage]),
                          <<100, 1>>)


(***************************************************************************)
(* C20.  For every user and genre g, the weight of g before normalisation  *)
(* is the sum of the star ratings, not their number, over the user's       *)
(* ratings whose movie carries g, and genrePreferences[g] is that weight   *)
(* divided by the user's total weight over all genres.                     *)
(***************************************************************************)
C20_WeightIsSumOfRatings ==
    upPc = "done" =>
        \A n \in 1..Len(userPreferences) :
            LET u == userPreferences[n]
                rows == 1..Len(userRatingsCsv)
                Carries(j, g) ==
                    /\ userRatingsCsv[j].userId = u.userId
                    /\ \E m \in 1..Len(MoviesCsv) :
                          /\ MoviesCsv[m].movieId = userRatingsCsv[j].movieId
                          /\ \E t \in 1..Len(MoviesCsv[m].genres) :
                                MoviesCsv[m].genres[t] = g
                weight(g) ==
                    SumSeq([j \in rows |->
                              IF Carries(j, g) THEN userRatingsCsv[j].rating
                              ELSE 0])
                genres == {"Action", "Comedy", "Drama"}
                total == SumSeq([t \in 1..3 |->
                                   weight(<<"Action", "Comedy", "Drama">>[t])])
            IN  /\ \A e \in 1..Len(u.genrePreferences) :
                      /\ u.genrePreferences[e].genre \in genres
                      /\ FracEq(u.genrePreferences[e].value,
                                <<weight(u.genrePreferences[e].genre), total>>)
                /\ \A g \in genres :
                      (\E j \in rows : Carries(j, g))
                          => \E e \in 1..Len(u.genrePreferences) :
                                u.genrePreferences[e].genre = g

\* A user with two ratings of different stars on movies sharing a genre:
\* the weights are 1.5 and 6.5 stars, where the counts are 1 and 2.
C20_Witness ==
    /\ upPc = "done"
    /\ \E n \in 1..Len(userPreferences) :
          LET p == userPreferences[n].genrePreferences
          IN  /\ Len(p) = 2
              /\ p[1].genre = "Action" /\ FracEq(p[1].value, <<3, 16>>)
              /\ p[2].genre = "Comedy" /\ FracEq(p[2].value, <<13, 16>>)


(***************************************************************************)
(* C19.  The sampleRatings of a user are the first 5 of that user's        *)
(* ratings in input order, all of them when the user has fewer than 5,     *)
(* each with the title and the genres of the rated movie; there are never  *)
(* more than 5.                                                            *)
(***************************************************************************)
C19_FirstFiveRatings ==
    upPc = "done" =>
        \A n \in 1..Len(userPreferences) :
            LET u == userPreferences[n]
                mine == SelectSeq(userRatingsCsv,
                                  LAMBDA r : r.userId = u.userId)
            IN  /\ Len(u.sampleRatings) <= 5
                /\ Len(u.sampleRatings) =
                      IF Len(mine) < 5 THEN Len(mine) ELSE 5
                /\ \A i \in 1..Len(u.sampleRatings) :
                      /\ i <= Len(mine)
                      /\ u.sampleRatings[i].movieId = mine[i].movieId
                      /\ u.sampleRatings[i].rating = mine[i].rating
                      /\ \E m \in 1..Len(MoviesCsv) :
                            /\ MoviesCsv[m].movieId = mine[i].movieId
                            /\ MoviesCsv[m].title = u.sampleRatings[i].title
                            /\ MoviesCsv[m].genres = u.sampleRatings[i].genres

\* What holds instead: the sampleRatings are the first 5, in input order,
\* of the user's ratings whose movie has a row in movies.csv.
C19_FirstFiveRatingsOfKnownMovies ==
    upPc = "done" =>
        \A n \in 1..Len(userPreferences) :
            LET u == userPreferences[n]
                Known(r) == \E m \in 1..Len(MoviesCsv) :
                               MoviesCsv[m].movieId = r.movieId
                mine == SelectSeq(userRatingsCsv,
                                  LAMBDA r : r.userId = u.userId /\ Known(r))
            IN  /\ Len(u.sampleRatings) <= 5
                /\ Len(u.sampleRatings) =
                      IF Len(mine) < 5 THEN Len(mine) ELSE 5
                /\ \A i \in 1..Len(u.sampleRatings) :
                      /\ u.sampleRatings[i].movieId = mine[i].movieId
                      /\ u.sampleRatings[i].rating = mine[i].rating
                      /\ \E m \in 1..Len(MoviesCsv) :
                            /\ MoviesCsv[m].movieId = mine[i].movieId
                            /\ MoviesCsv[m].title = u.sampleRatings[i].title
                            /\ MoviesCsv[m].genres = u.sampleRatings[i].genres

\* User 1 has rated movie 5, unknown to movies.csv, first and then six
\* known movies, the sixth unlike the first: five samples are held.
C19_Witness ==
    /\ upPc = "done"
    /\ Len(userRatingsCsv) = 7
    /\ \A j \in 1..7 : userRatingsCsv[j].userId = 1
    /\ userRatingsCsv[1].movieId = 5
    /\ userRatingsCsv[2].movieId = 1
    /\ userRatingsCsv[7].movieId = 3
    /\ \A j \in 2..7 : userRatingsCsv[j].movieId # 5
    /\ Len(userPreferences) = 1
    /\ Len(userPreferences[1].sampleRatings) = 5


(***************************************************************************)
(* C18.  A record with a rating or an id that is no number is skipped at   *)
(* ingestion: the preference vectors are those of the remaining records.   *)
(***************************************************************************)
C18_MalformedSkipped ==
    upPc = "done" =>
        LET WellFormed(r) ==
                r.userId # NaN /\ r.movieId # NaN /\ r.rating # NaN
        IN  userPreferences =
                BuildUserPreferences(SelectSeq(userRatingsCsv, WellFormed))

\* What holds of the code: a record whose movie id alone is no number
\* finds no movie and changes no vector.
C18_MalformedMovieIdChangesNothing ==
    upPc = "done" =>
        LET HasMovieId(r) ==
                r.movieId # NaN \/ r.userId = NaN \/ r.rating = NaN
            kept == BuildUserPreferences(SelectSeq(userRatingsCsv, HasMovieId))
        IN  \A u \in 1..Len(kept) :
                \E n \in 1..Len(userPreferences) : userPreferences[n] = kept[u]


(***************************************************************************)
(* C21.  getTemporalRatingPatterns returns a sparse grid: one entry for    *)
(* each cell (dayOfWeek in 0..6, hour in 0..23) that holds a rating        *)
(* passing the genre filter and none for an empty cell, no cell twice,     *)
(* the count of an entry being the number of passing ratings of its cell,  *)
(* so that the counts add up to the number of passing ratings.             *)
(***************************************************************************)
C21_SparseGrid ==
    tpPc \in {"computed", "returned"} =>
        LET passing == {j \in 1..Len(ratingsCsv) :
                           PassesGenreFilter(ratingsCsv[j], tpGenre)}
            inCell(d, h) == {j \in passing :
                                /\ GetDay(ratingsCsv[j].timestamp, tzOffset) = d
                                /\ GetHours(ratingsCsv[j].timestamp, tzOffset) = h}
            at(d, h) == {n \in 1..Len(tpResult) :
                            tpResult[n].dayOfWeek = d /\ tpResult[n].hour = h}
        IN  /\ \A n \in 1..Len(tpResult) :
                  tpResult[n].dayOfWeek \in 0..6 /\ tpResult[n].hour \in 0..23
            /\ \A d \in 0..6, h \in 0..23 :
                  /\ Cardinality(at(d, h)) = IF inCell(d, h) = {} THEN 0 ELSE 1
                  /\ \A n \in at(d, h) :
                        tpResult[n].count = Cardinality(inCell(d, h))
            /\ SumSeq([n \in 1..Len(tpResult) |-> tpResult[n].count])
                   = Cardinality(passing)

\* What the code returns: the dense grid, one entry for each of the 168
\* cells in the order of day and hour, empty cells with count 0; the
\* counts are as claimed.
C21_DenseGrid ==
    tpPc \in {"computed", "returned"} =>
        LET passing == {j \in 1..Len(ratingsCsv) :
                           PassesGenreFilter(ratingsCsv[j], tpGenre)}
            inCell(d, h) == {j \in passing :
                                /\ GetDay(ratingsCsv[j].timestamp, tzOffset) = d
                                /\ GetHours(ratingsCsv[j].timestamp, tzOffset) = h}
        IN  /\ Len(tpResult) = 168
            /\ \A d \in 0..6, h \in 0..23 :
                  tpResult[d * 24 + h + 1] =
                      [dayOfWeek |-> d, hour |-> h,
                       count |-> Cardinality(inCell(d, h))]
            /\ SumSeq([d \in 1..7 |->
                         SumSeq([h \in 1..24 |->
                                   tpResult[(d - 1) * 24 + h].count])])
                   = Cardinality(passing)


(***************************************************************************)
(* C22.  fit leaves its loop exactly at the first pass whose assignment    *)
(* equals that of the pass before, and the assignment returned is a fixed  *)
(* point: every point carries the label of a centroid nearest to it among  *)
(* the final centroids, and every centroid with points is the mean of its  *)
(* points in each dimension.                                               *)
(***************************************************************************)
C22_StopsAtFixedPoint ==
    /\ (kmPc = "loop" /\ iterations >= 1) => clusters # oldClusters
    /\ kmPc = "done" =>
          /\ clusters = oldClusters
          /\ \A i \in 1..Len(data), j \in 0..(k - 1) :
                ~FracLess(euclideanDistance(data[i], centroids[j]),
                          euclideanDistance(data[i], centroids[clusters[i]]))
          /\ \A j \in 0..(k - 1) :
                LET members == {i \in 1..Len(data) : clusters[i] = j}
                    sum(dim) == SumSeq([i \in 1..Len(data) |->
                                   IF i \in members THEN data[i][dim] ELSE 0])
                IN  members # {} =>
                       /\ centroids[j].sx * Cardinality(members)
                             = sum(1) * centroids[j].n
                       /\ centroids[j].sy * Cardinality(members)
                             = sum(2) * centroids[j].n

\* fit has returned after three passes or more with two labels in use.
C22_Witness ==
    /\ kmPc = "done"
    /\ iterations >= 3
    /\ \E i, j \in 1..Len(clusters) : clusters[i] # clusters[j]

(***************************************************************************)
(* C23.  In the assignment step every point gets the index of a centroid   *)
(* at the least Euclidean distance, and of the centroids at that distance  *)
(* the one of lowest index.                                                *)
(***************************************************************************)
C23_NearestLowestIndex ==
    [][kmPc = "loop" =>
          \A i \in 1..Len(data) :
              LET dist(j) == euclideanDistance(data[i], centroids[j])
              IN  /\ clusters'[i] \in 0..(k - 1)
                  /\ \A j \in 0..(k - 1) :
                        ~FracLess(dist(j), dist(clusters'[i]))
                  /\ \A j \in 0..(clusters'[i] - 1) :
                        FracLess(dist(clusters'[i]), dist(j))]_vars

\* A first assignment has been made from initial centroids of which two
\* are copies of equal points.
C23_Witness ==
    /\ iterations = 1
    /\ \E i, j \in DOMAIN seeds :
          i < j /\ data[seeds[i]] = data[seeds[j]]
    /\ \E i, j \in DOMAIN seeds : data[seeds[i]] # data[seeds[j]]

(***************************************************************************)
(* C24.  In the update step a centroid without points keeps its position   *)
(* and its index, a centroid with points becomes the mean of its points,   *)
(* and the centroids are k after every pass.                               *)
(***************************************************************************)
C24_EmptyCentroidKept ==
    [][kmPc = "loop" =>
          /\ DOMAIN centroids' = 0..(k - 1)
          /\ \A j \in 0..(k - 1) :
                LET members == {i \in 1..Len(data) : clusters'[i] = j}
                    sum(dim) == SumSeq([i \in 1..Len(data) |->
                                   IF i \in members THEN data[i][dim] ELSE 0])
                IN  IF members = {} THEN centroids'[j] = centroids[j]
                    ELSE /\ centroids'[j].sx * Cardinality(members)
                               = sum(1) * centroids'[j].n
                         /\ centroids'[j].sy * Cardinality(members)
                               = sum(2) * centroids'[j].n]_vars

\* After a pass one centroid has no point and is where it was picked,
\* while another has moved away from where it was picked.
C24_Witness ==
    /\ kmPc \in {"loop", "done"}
    /\ iterations >= 1
    /\ \E j \in 0..(k - 1) :
          /\ \A i \in 1..Len(data) : clusters[i] # j
          /\ centroids[j] = [sx |-> data[seeds[j]][1],
                             sy |-> data[seeds[j]][2], n |-> 1]
    /\ \E j \in 0..(k - 1) :
          /\ \E i \in 1..Len(data) : clusters[i] = j
          /\ centroids[j] # [sx |-> data[seeds[j]][1],
                             sy |-> data[seeds[j]][2], n |-> 1]

(***************************************************************************)
(* C25.  When all the points are equal, for every k, the first assignment  *)
(* is the final one, every point in cluster 0, no centroid ever moves, and *)
(* the loop ends with the pass after the first, which only finds the       *)
(* assignment repeated.                                                    *)
(***************************************************************************)
C25_IdenticalPointsOnePass ==
    (kmPc \in {"loop", "done"} /\ \A i \in 1..Len(data) : data[i] = data[1]) =>
        /\ \A j \in 0..(k - 1) :
              centroids[j] = [sx |-> data[1][1], sy |-> data[1][2], n |-> 1]
        /\ \A n \in 1..Len(assignments) :
              assignments[n] = [i \in 1..Len(data) |-> 0]
        /\ iterations <= 2
        /\ (kmPc = "done" <=> iterations = 2)

\* fit has returned for several equal points and several centroids.
C25_Witness ==
    /\ kmPc = "done"
    /\ Len(data) >= 2
    /\ k >= 2
    /\ \A i \in 1..Len(data) : data[i] = data[1]

(***************************************************************************)
(* C27.  fit, which has no cap on its passes, terminates for every         *)
(* non-empty input, every k and every choice of initial centroids; and no  *)
(* assignment comes back after a different one: the loop does not cycle.   *)
(***************************************************************************)
C27_TerminatesWithoutCycle ==
    /\ [](\A a, b, c \in 1..Len(assignments) :
             (a < b /\ b < c /\ assignments[a] = assignments[c])
                 => assignments[b] = assignments[a])
    /\ <>(kmPc = "done")

\* fit has returned after its assignment changed twice.
C27_Witness ==
    /\ kmPc = "done"
    /\ Len(assignments) >= 4
    /\ assignments[1] # assignments[2]
    /\ assignments[2] # assignments[3]


(***************************************************************************)
(* C30.  A call of getMovieRatingLifecycle that fails, the movie missing   *)
(* or without release year, leaves the cache as it was and writes nothing  *)
(* under movie_lifecycle_<movieId>: the key of such a movie is never held, *)
(* so a later call for it misses and reads the dataset again.              *)
(***************************************************************************)
C30_FailureLeavesCache ==
    [][/\ lcPc' = "failed" =>
             /\ cache' = cache
             /\ LifecycleKey(lcMovieId') \notin DOMAIN cache'
             /\ lcTrace' = <<"get", "read">>
       /\ lcPc = "failed" => cache' = cache
       /\ \A m \in RequestIds :
             MovieUnusable(ReadMovies(m))
                 => LifecycleKey(m) \notin DOMAIN cache']_vars

\* A call has failed while the cache holds the result of an earlier call.
C30_Witness ==
    /\ lcPc = "failed"
    /\ cache # <<>>
    /\ lcTrace = <<"get", "read">>


(***************************************************************************)
(* C26.  The matrix built for PCA has one row per user in input order and  *)
(* one column per genre of the union of the users' genres, in one order    *)
(* shared by all rows; an entry is the user's preference for the genre of  *)
(* its column, 0 when the user has none; the rows have one length; and     *)
(* the i-th embedding returned carries the i-th user's userId.             *)
(***************************************************************************)
C26_MatrixAligned ==
    upPc = "projected" =>
        LET users == 1..Len(userPreferences)
            Has(u, g) == \E j \in 1..Len(userPreferences[u].genrePreferences) :
                            userPreferences[u].genrePreferences[j].genre = g
            union == {g \in {"Action", "Comedy", "Drama", "(no genres listed)"} :
                         \E u \in users : Has(u, g)}
            Entry(u, g) ==
                IF Has(u, g)
                THEN LET p == userPreferences[u].genrePreferences
                     IN  p[CHOOSE j \in 1..Len(p) : p[j].genre = g].value
                ELSE <<0, 1>>
        IN  /\ Len(pcaMatrix) = Len(userPreferences)
            /\ \A u \in users : Len(pcaMatrix[u]) = Cardinality(union)
            /\ \E column \in [1..Cardinality(union) -> union] :
                  /\ \A a, b \in 1..Cardinality(union) :
                        a # b => column[a] # column[b]
                  /\ \A u \in users, g \in 1..Cardinality(union) :
                        pcaMatrix[u][g] = Entry(u, column[g])
            /\ Len(pcaEmbeddings) = Len(userPreferences)
            /\ \A u \in users :
                  pcaEmbeddings[u].userId = userPreferences[u].userId

\* A matrix of two rows and two columns has been built, the second user
\* without a preference for a genre of the first.
C26_Witness ==
    /\ upPc = "projected"
    /\ Len(pcaMatrix) = 2
    /\ Len(pcaMatrix[1]) = 2
    /\ pcaMatrix[1][1] # <<0, 1>>
    /\ pcaMatrix[2][1] = <<0, 1>>
    /\ pcaEmbeddings[1].userId # pcaEmbeddings[2].userId


\* C28 (as stated): a request made after importMovies resolved returns what
\* the table holds after the import, statistics and movies alike.
C28_NoStaleAfterImport ==
    (rqPc = "returned" /\ rqBegun = "resolved") =>
        rqResult = IF rqOp = "movie_stats"
                   THEN MovieStats(Len(movieTable), movieTable)
                   ELSE movieTable

\* C29 (as stated): once importMovies and a getMovieStats that was in flight
\* beside it have both completed, the statistics the cache holds are those
\* of the table after the import, total and distribution of one table state.
C29_NoStaleStatsAfterRace ==
    (imPc = "resolved" /\ rqPc = "idle"
        /\ <<"movie_stats">> \in DOMAIN cache) =>
        cache[<<"movie_stats">>].value =
            MovieStats(Len(movieTable), movieTable)

====
